---- MODULE Spec2Model ----
(***************************************************************************)
(* Verification model of Depthflow-WebGL.                                  *)
(*                                                                         *)
(* Part 1 (SpecMarch): the fragment shaders' per-pixel program, one        *)
(* action per loop iteration of the two ray marches and per branch of      *)
(* main().                                                                 *)
(* Part 2 (SpecLayers): DepthProcessor.process(), one action per stage     *)
(* and per pyramid level.                                                  *)
(* Part 3 (SpecRenderer, SpecApp): the two-layer demo's Renderer,          *)
(* DepthEstimator and TwoLayerDepthDemo, one action per run-to-completion  *)
(* piece of JavaScript.                                                    *)
(* Part 4 (SpecSample, SpecEstimator, SpecUpload): the sampler on its own, *)
(* DepthEstimator.init in its two versions, and the main application's     *)
(* image upload with automatic depth generation.                           *)
(* Part 5 (SpecLoop, SpecRecorder): the main application's on-demand       *)
(* render loop, and the Recorder with the MotionController it drives.      *)
(* Part 6 (SpecEdgeFix): the main application's Renderer with its edge     *)
(* fix: depth loads, edgeFix changes and render().                         *)
(*                                                                         *)
(* Number representation.  The shaders compute in floats; the model        *)
(* computes the same expressions exactly on integers:                      *)
(*   - xy coordinates (vGluv, uOffset, ...) are integers counting halves;  *)
(*   - uHeight counts halves; uSteady, uIsometric, uInvert, uDolly are     *)
(*     whole numbers; uQuality is a whole number;                          *)
(*   - walk = nF * probeStep - nB * fineStep is kept as the two counts;    *)
(*     with P = mix(50,120,q), F = mix(200,2000,q) it is                   *)
(*     WalkNum / (P * F);                                                 *)
(*   - a point's x, y are numerators over CoordDen = 4 * P * F;            *)
(*   - texels are bytes 0..255 (depth = byte / 255).                       *)
(* texture() is modelled as returning the texel that contains the          *)
(* coordinate, with CLAMP_TO_EDGE.                                         *)
(***************************************************************************)
EXTENDS Integers, Sequences, FiniteSets, TLC

VARIABLES
    uniforms,    \* the shader's uniform values for the draw call
    textures,    \* renderer.textures: name -> raster [w, h, data]
    vGluv,       \* the pixel's screen coordinate <<x, y>> (halves)
    pc,          \* position of the per-pixel program
    i,           \* loop counter of the running for loop
    nF,          \* number of executed "walk += probeStep"
    nB,          \* number of executed "walk -= fineStep"
    hitUV,       \* <<x, y>> numerators over CoordDen
    hitDepth,    \* last sampled depth (byte, after the invert blend)
    lastDepth,   \* the sample before it
    hit,         \* RayHit of rayMarch
    bgUV,        \* result of rayMarchBackground
    fragColor    \* output of main()

\* The DepthProcessor at work: its position in process(), its input and
\* parameters, and the arrays it has built so far
VARIABLE dp

\* The two-layer demo: the Renderer's fields (its textures are the variable
\* textures), the State's mask parameters, the DepthEstimator, the
\* TwoLayerDepthDemo, and what the last call of render() drew
VARIABLES renderer, state, estimator, app, frame

appVars == <<renderer, state, estimator, app, frame>>

marchVars == <<uniforms, textures, vGluv, pc, i, nF, nB, hitUV, hitDepth,
               lastDepth, hit, bgUV, fragColor>>

\* the variables of the other parts, which the per-pixel program leaves alone
outsideMarch == <<dp, appVars>>

vars == <<marchVars, outsideMarch>>

\* what the depth processor leaves alone
outsideLayers == <<marchVars, appVars>>

\* the per-pixel variables, which belong to the GPU
pixelVars == <<uniforms, vGluv, pc, i, nF, nB, hitUV, hitDepth, lastDepth,
               hit, bgUV, fragColor>>

----------------------------------------------------------------------------
(* Bounds of the model *)

\* screen coordinates range over -MaxCoord..MaxCoord halves
MaxCoord == 2
\* camera offsets range over 0..MaxOffset halves
MaxOffset == 1

\* the largest width and height of a raster given to the depth processor
MaxSide == 5

\* the largest mask dilation radius
MaxRadius == 1

\* sampled coordinates range over -MaxSample..MaxSample quarters on each axis
MaxSample == 10

\* the number of uploads and regenerate clicks in one run of the main
\* application
MaxUploads == 3

\* the planned length of a recording, in frame periods
MaxDuration == 2

\* the clock performance.now() of a run of the recorder, in frame periods
MaxNow == 4

\* the largest edgeFix value, in twentieths
MaxEdgeFix == 4

\* the number of frames for which an input keeps the camera moving
MaxMoving == 2

\* the number of depth rasters generated in one run of the render loop
MaxDepths == 2

----------------------------------------------------------------------------
(* Arithmetic helpers *)

Abs(x) == IF x < 0 THEN -x ELSE x

Min(a, b) == IF a < b THEN a ELSE b

Max(a, b) == IF a > b THEN a ELSE b

\* GLSL mix(a, b, t) for a whole-number t.
mix(a, b, t) == a * (1 - t) + b * t

----------------------------------------------------------------------------
(* Utility functions of the shader *)

\* A triangle wave that takes twice the period to come back
triangleWaveSlow(xn, pn) == Abs(((2 * xn - pn) % (4 * pn)) - 2 * pn) - pn

\* triangleWave(x, period) = 2|mod(2x/period - 0.5, 2) - 1| - 1, for
\* x = xn/d and period = pn/d over one denominator d; the result is the
\* numerator of the wave over pn.  mod(a, 2) = a - 2 floor(a/2) is %.
triangleWave(xn, pn) == Abs(((4 * xn - pn) % (4 * pn)) - 2 * pn) - pn

\* Raster-sample coordinate (stuv) of an aspect-corrected coordinate, one
\* axis: <<numerator, denominator>> of (g / aspectOnAxis + 1) / 2, after
\* mirroredRepeat when uMirror.  g = gn / den; the aspect on the axis is
\* an / ad (the image aspect on x, 1 on y).
stuvAxis(gn, den, an, ad, mirror) ==
    IF mirror
    THEN LET pn == 4 * an * den            \* period 4 * aspect over den * ad
             tn == triangleWave(gn * ad, pn)
         IN  <<tn + pn, 2 * pn>>
    ELSE <<gn * ad + an * den, 2 * an * den>>

\* A texel index that is not clamped to the edge
texelIndexUnclamped(s, n, flip) ==
    LET sn == IF flip THEN s[2] - s[1] ELSE s[1]
    IN  (sn * n) \div s[2]

\* The texel index on an axis of n texels that contains stuv = s[1]/s[2],
\* clamped to the edge (TEXTURE_WRAP_S/T = CLAMP_TO_EDGE of uploadTexture; the
\* 1x1 placeholders keep the default wrap mode, which reads the same texel); flip is the "stuv.y = 1.0 - stuv.y" of gluvToStuv.
texelIndex(s, n, flip) ==
    LET sn == IF flip THEN s[2] - s[1] ELSE s[1]
        k  == (sn * n) \div s[2]
    IN  Max(0, Min(n - 1, k))

----------------------------------------------------------------------------
(* Rasters and sampling *)

\* A raster of bytes, data in row-major order.
Raster(w, h, data) == [w |-> w, h |-> h, data |-> data]

\* The 1x1 placeholder texture {128, 128, 128, 255}.
placeholder == Raster(1, 1, <<128>>)

\* sampleTex / sampleTexture: the texel of textures[name] at the coordinate
\* uv (numerators over den); the two-layer shader flips stuv.y.
sampleTex(name, uv, den) ==
    LET tex == textures[name]
        an  == uniforms.uImageAspect[1]
        ad  == uniforms.uImageAspect[2]
        col == texelIndex(stuvAxis(uv[1], den, an, ad, uniforms.uMirror),
                          tex.w, FALSE)
        row == texelIndex(stuvAxis(uv[2], den, 1, 1, uniforms.uMirror),
                          tex.h, uniforms.program = "twolayer")
    IN  tex.data[row * tex.w + col + 1]

\* sampleDepthFG / sampleDepthBG: mix(d, 1 - d, uInvert), in bytes.
sampleDepth(name, uv, den) ==
    LET d == sampleTex(name, uv, den)
    IN  mix(d, 255 - d, uniforms.uInvert)

----------------------------------------------------------------------------
(* Ray construction *)

\* probeStep = 1 / probeDiv, fineStep = 1 / fineDiv
probeDiv == mix(50, 120, uniforms.uQuality)

fineDiv == mix(200, 2000, uniforms.uQuality)

WalkDen == probeDiv * fineDiv

\* walk * WalkDen after f forward and b backward steps
WalkNum(f, b) == f * fineDiv - b * probeDiv

\* denominator of the x, y numerators of a point on the ray
CoordDen == 4 * WalkDen

cameraXY == <<uniforms.uOffset[1] + uniforms.uCenter[1],
              uniforms.uOffset[2] + uniforms.uCenter[2]>>

\* rayOrigin.xy (halves); rayOrigin.z = -uDolly
rayOrigin ==
    [k \in 1..2 |-> cameraXY[k] + vGluv[k] * uniforms.uZoom * uniforms.uIsometric
                    + uniforms.uOrigin[k]]

\* An intersect point without the correction by cameraXY
intersectUnglued == [k \in 1..2 |-> uniforms.uCenter[k] + vGluv[k]]

\* intersect.xy (halves); intersect.z = 1.  relSteady = uSteady * uHeight is
\* uSteady * uHeight / 2 here, so 1 / (1 - relSteady) = 2 / (2 - s * h); the
\* model's ranges make the division exact.
intersect ==
    LET k2 == 2 - uniforms.uSteady * uniforms.uHeight
    IN  [k \in 1..2 |->
            uniforms.uCenter[k] + vGluv[k]
            - (IF k2 # 0 THEN (cameraXY[k] * 2) \div k2 ELSE 0)]

\* (1 - mix(safe, 1.0, walk)) * 2 * WalkDen = uHeight * (1 - walk) * 2 * WalkDen
\* with safe = 1 - uHeight
rest(f, b) == uniforms.uHeight * (WalkDen - WalkNum(f, b))

\* point.xy = mix(rayOrigin, intersect, mix(safe, 1.0, walk)).xy over CoordDen
point(f, b) ==
    [k \in 1..2 |-> intersect[k] * 2 * WalkDen
                    + (rayOrigin[k] - intersect[k]) * rest(f, b)]

\* ceiling < surface, with ceiling = 1 - point.z = (1 + uDolly) * rest / (2 WalkDen)
\* and surface = uHeight * depth = uHeight * d / (2 * 255)
inside(f, b, d) ==
    (1 + uniforms.uDolly) * rest(f, b) * 255 < uniforms.uHeight * d * WalkDen

\* A break at walk >= 1.0
walkPastOneIncluded(f, b) == WalkNum(f, b) >= WalkDen

\* walk > 1.0
walkPastOne(f, b) == WalkNum(f, b) > WalkDen

\* A background march that samples the foreground mask
depthOfMask(p) == IF p \in {"bgFwd", "bgBwd"} THEN "mask" ELSE "depth"

\* The depth texture a march reads: rayMarch and computeParallax read uDepth,
\* rayMarchBackground reads uDepthBG.
depthOf(p) == IF p \in {"bgFwd", "bgBwd"} THEN "depthBG" ELSE "depth"

----------------------------------------------------------------------------
(* The per-pixel program: state after the declarations of rayMarch /
   computeParallax, for one pixel of one draw call *)

\* The two fragment shaders
Programs == {"depthflow", "twolayer"}

\* <<uQuality, uDolly>>.  Quality 0 gives 50 probes per unit walk and quality 3
\* gives 260, more than the forward cap; with dolly -1 the ray runs inside the
\* plane z = 1, so that it never leaves a surface it has entered.
Cameras == {<<0, 0>>, <<3, 0>>, <<0, -1>>}

\* <<uLayerBlend (hundredths), uSteepnessLimit>> of the two-layer shader.  A
\* step between the depth bytes 0 and 255 has a steepness above 300, so the
\* limits 250 and 400 lie just under and just over it.
Blends == {<<0, 1>>, <<100, 1>>, <<100, 250>>, <<50, 250>>, <<100, 400>>}

\* <<uHeight (halves), uSteady>>
HeightSteady == {<<0, 0>>, <<2, 0>>, <<1, 1>>, <<2, 1>>}

\* 2x1 depth rasters
DepthRasters == {Raster(2, 1, <<0, 255>>), Raster(2, 1, <<255, 0>>),
                 Raster(2, 1, <<255, 255>>)}

\* The colour rasters: a 2x1 image and its inpainted background
imageRaster == Raster(2, 1, <<10, 200>>)

imageBGRaster == Raster(2, 1, <<60, 90>>)

\* renderer.textures after createPlaceholderTextures and the upload of an image
\* and a depth raster d only
TexturesForeground(d) ==
    [image |-> imageRaster, depth |-> d, imageBG |-> placeholder,
     depthBG |-> placeholder, mask |-> placeholder]

\* renderer.textures after loadLayers with all five rasters
TexturesLayers(d) ==
    [image |-> imageRaster, depth |-> d, imageBG |-> imageBGRaster,
     depthBG |-> Raster(2, 1, <<0, 0>>), mask |-> Raster(2, 1, <<255, 0>>)]

\* renderer.textures after loadLayers with the layers of an empty foreground
\* mask: the background layers are copies of the image and the depth raster
TexturesUnmasked(d) ==
    [image |-> imageRaster, depth |-> d, imageBG |-> imageRaster,
     depthBG |-> d, mask |-> Raster(2, 1, <<0, 0>>)]

\* The pixels: vGluv = aPosition * (aspect, 1), so |y| <= 1 (2 halves)
Pixels == {<<-MaxCoord, 0>>, <<0, 0>>, <<MaxCoord, 0>>, <<0, -2>>}

\* local declarations of a march: walk = 0, hitUV = screenGluv, hitDepth = 0
hitUV0 == [k \in 1..2 |-> vGluv[k] * 2 * WalkDen]

hit0 == [uv |-> <<0, 0>>, depth |-> 0, derivative |-> 0, steep |-> 0,
         valid |-> TRUE, isBackground |-> FALSE]

black == [src |-> "black", fg |-> 0, bg |-> 0, factor |-> <<0, 1>>]

\* JavaScript's null
null == [null |-> TRUE]

\* "no frame drawn since the last change"
noFrame == [drawn |-> FALSE]

\* The demo as constructed: Renderer (lines 17-20), State, DepthEstimator,
\* TwoLayerDepthDemo
AppInit ==
    /\ renderer = [originalDepth |-> null, lastProcessParams |-> <<>>,
                   imageAspect |-> <<1, 1>>]
    /\ state = [foregroundThreshold |-> 40, maskDilation |-> 5]
    /\ estimator = [model |-> FALSE, loading |-> FALSE, thrown |-> FALSE,
                    lastInit |-> "none"]
    /\ app = [originalImage |-> null, depthMap |-> null, status |-> "",
              pending |-> {}, layers |-> null]
    /\ frame = noFrame

\* A processor that is not running
dpIdle == [pc |-> "idle", image |-> placeholder, foregroundThreshold |-> 40,
           edgeDilation |-> 5, depth |-> <<>>, mask |-> <<>>,
           levels |-> <<>>, level |-> 0, result |-> <<>>, pass |-> 0,
           layers |-> <<>>]

MarchInit ==
    /\ \E prog \in Programs, cam \in Cameras, hs \in HeightSteady,
          m \in BOOLEAN, o \in {0, MaxOffset}, lb \in Blends,
          c \in {0, 1} :
          /\ c = 0 \/ hs[1] = 0
          /\ uniforms = [program |-> prog, uQuality |-> cam[1], uHeight |-> hs[1],
                         uMirror |-> m, uSteady |-> hs[2], uFocus |-> 0,
                         uZoom |-> 1, uIsometric |-> 1, uDolly |-> cam[2],
                         uInvert |-> 0, uOffset |-> <<o, o>>,
                         uCenter |-> <<c, 0>>, uOrigin |-> <<0, 0>>,
                         uImageAspect |-> <<2, 1>>,
                         uLayerBlend |-> IF prog = "twolayer" THEN lb[1] ELSE 0,
                         uSteepnessLimit |-> IF prog = "twolayer" THEN lb[2]
                                             ELSE 1,
                         uBlendSoftness |-> <<1, 2>>, uVisualization |-> 0]
    /\ \E d \in DepthRasters :
          \/ textures = TexturesForeground(d)
          \/ /\ uniforms.program = "twolayer"
             /\ uniforms.uLayerBlend = 100
             /\ \/ textures = TexturesLayers(d)
                \/ textures = TexturesUnmasked(d)
    /\ vGluv \in Pixels
    /\ dp = dpIdle
    /\ AppInit
    /\ pc = "fgFwd"
    /\ i = 0
    /\ nF = 0
    /\ nB = 0
    /\ hitUV = hitUV0
    /\ hitDepth = 0
    /\ lastDepth = 0
    /\ hit = hit0
    /\ bgUV = <<0, 0>>
    /\ fragColor = black

\* No pixel is being computed
MarchIdle ==
    /\ uniforms = [program |-> "twolayer"]
    /\ textures = TexturesForeground(placeholder)
    /\ vGluv = <<0, 0>>
    /\ pc = "done"
    /\ i = 0 /\ nF = 0 /\ nB = 0
    /\ hitUV = <<0, 0>> /\ hitDepth = 0 /\ lastDepth = 0
    /\ hit = hit0 /\ bgUV = <<0, 0>> /\ fragColor = black

----
(* The marches *)

Forward == {"fgFwd", "bgFwd"}

Backward == {"fgBwd", "bgBwd"}

\* A forward loop without its iteration cap, left to "if (walk > 1.0) break;"
forwardLoopUncapped(k) == TRUE

\* "i < 200" of the forward loops
forwardLoop(k) == k < 200

\* "i < 100" of the backward loops
backwardLoop(k) == k < 100

\* The sample a march takes at uv.  computeParallax keeps the raw texel in
\* hitDepth and inverts it in surface; rayMarch and rayMarchBackground sample
\* through sampleDepthFG / sampleDepthBG, which invert.
marchSample(p, uv) ==
    IF uniforms.program = "depthflow"
    THEN sampleTex("depth", uv, CoordDen)
    ELSE sampleDepth(depthOf(p), uv, CoordDen)

\* the depth that enters surface = uHeight * ...
surfaceDepth(d) ==
    IF uniforms.program = "depthflow" THEN mix(d, 255 - d, uniforms.uInvert)
    ELSE d

\* where a march goes when its backward loop is over
afterBackward(p) == IF p = "fgBwd" THEN "finish" ELSE "blend"

\* "if (walk > 1.0) break;"
ForwardWalkBreak ==
    /\ pc \in Forward
    /\ forwardLoop(i)
    /\ walkPastOne(nF, nB)
    /\ pc' = IF pc = "fgFwd" THEN "fgBwd" ELSE "bgBwd"
    /\ i' = 0
    /\ UNCHANGED <<uniforms, textures, vGluv, nF, nB, hitUV, hitDepth,
                   lastDepth, hit, bgUV, fragColor>>
    /\ UNCHANGED outsideMarch

\* One iteration of the forward loop: walk += probeStep, sample, and break
\* when ceiling < surface.
ForwardProbe ==
    /\ pc \in Forward
    /\ forwardLoop(i)
    /\ ~walkPastOne(nF, nB)
    /\ LET uv == point(nF + 1, nB)
           d  == marchSample(pc, uv)
       IN  /\ nF' = nF + 1
           /\ hitUV' = uv
           /\ lastDepth' = (IF pc = "fgFwd" THEN hitDepth ELSE lastDepth)
           /\ hitDepth' = d
           /\ IF inside(nF + 1, nB, surfaceDepth(d))
              THEN /\ pc' = (IF pc = "fgFwd" THEN "fgBwd" ELSE "bgBwd")
                   /\ i' = 0
              ELSE /\ pc' = pc
                   /\ i' = i + 1
    /\ UNCHANGED <<uniforms, textures, vGluv, nB, hit, bgUV, fragColor>>
    /\ UNCHANGED outsideMarch

\* The forward loop ends because i reached 200.
ForwardCap ==
    /\ pc \in Forward
    /\ ~forwardLoop(i)
    /\ pc' = IF pc = "fgFwd" THEN "fgBwd" ELSE "bgBwd"
    /\ i' = 0
    /\ UNCHANGED <<uniforms, textures, vGluv, nF, nB, hitUV, hitDepth,
                   lastDepth, hit, bgUV, fragColor>>
    /\ UNCHANGED outsideMarch

\* One iteration of the backward loop: walk -= fineStep, sample, and break
\* when ceiling >= surface; rayMarch then sets hit.derivative
\* = (lastDepth - hitDepth) / fineStep, kept as the byte difference.
BackwardRefine ==
    /\ pc \in Backward
    /\ backwardLoop(i)
    /\ LET uv == point(nF, nB + 1)
           d  == marchSample(pc, uv)
       IN  /\ nB' = nB + 1
           /\ hitUV' = uv
           /\ lastDepth' = (IF pc = "fgBwd" /\ uniforms.program = "twolayer"
                            THEN hitDepth ELSE lastDepth)
           /\ hitDepth' = d
           /\ IF ~inside(nF, nB + 1, surfaceDepth(d))
              THEN /\ pc' = afterBackward(pc)
                   /\ i' = 0
                   /\ hit' = IF pc = "fgBwd"
                             THEN [hit EXCEPT !.derivative = hitDepth - d]
                             ELSE hit
              ELSE /\ pc' = pc
                   /\ i' = i + 1
                   /\ hit' = hit
    /\ UNCHANGED <<uniforms, textures, vGluv, nF, bgUV, fragColor>>
    /\ UNCHANGED outsideMarch

\* What an uninitialized float may hold (as a byte difference)
Uninitialized == {0, 255}

\* The backward loop ends because i reached 100: rayMarch has not assigned
\* hit.derivative, which then holds whatever the build leaves in it.
BackwardCap ==
    /\ pc \in Backward
    /\ ~backwardLoop(i)
    /\ pc' = afterBackward(pc)
    /\ i' = 0
    /\ \E g \in Uninitialized :
          hit' = IF pc = "fgBwd" /\ uniforms.program = "twolayer"
                 THEN [hit EXCEPT !.derivative = g] ELSE hit
    /\ UNCHANGED <<uniforms, textures, vGluv, nF, nB, hitUV, hitDepth,
                   lastDepth, bgUV, fragColor>>
    /\ UNCHANGED outsideMarch

----------------------------------------------------------------------------
(* End of rayMarch / computeParallax: normal, steepness, bounds check *)

\* "abs(normalized.x) > 1.0 || abs(normalized.y) > 1.0" for
\* normalized = hitUV / vec2(uImageAspect, 1.0), hitUV = uv / CoordDen
exceedsUnit(uv) ==
    \/ Abs(uv[1]) * uniforms.uImageAspect[2] > uniforms.uImageAspect[1] * CoordDen
    \/ Abs(uv[2]) > CoordDen

\* A bounds check that tests the x axis only
boundsValidXOnly(uv) ==
    ~(~uniforms.uMirror
      /\ Abs(uv[1]) * uniforms.uImageAspect[2] > uniforms.uImageAspect[1] * CoordDen)

\* The bounds check: "if (!uMirror) { ... hit.valid = false; }"
boundsValid(uv) == ~(~uniforms.uMirror /\ exceedsUnit(uv))

\* gradStep = fineStep = 1 / fineDiv = 4 * probeDiv / CoordDen
gradStep == 4 * probeDiv

\* The normal is tilted (vectorAngle(hit.normal, z) > 0) exactly when one of
\* the two depth differences of the gradient is not zero.
tilted(uv, d) ==
    \/ sampleDepth("depth", <<uv[1] - gradStep, uv[2]>>, CoordDen) # d
    \/ sampleDepth("depth", <<uv[1], uv[2] - gradStep>>, CoordDen) # d

\* hit.steep = abs(hit.derivative) * normalAngle, as a whole number not above
\* it: 0 when the derivative is 0 or the normal is vertical; otherwise the
\* normal's x or y is at least 127/255 * 200 and its z at most 1, so that
\* normalAngle > 3/2, and steep > |derivative| * 3/2 with derivative
\* = dd / 255 * fineDiv.
steepness(dd, isTilted) ==
    IF dd = 0 \/ ~isTilted THEN 0
    ELSE (Abs(dd) * fineDiv * 3) \div (255 * 2)

\* rayMarch after its loops (hit.uv ... return hit), and computeParallax after
\* its loops (result.outOfBounds is ~valid; it computes no steepness).
Finish ==
    /\ pc = "finish"
    /\ LET st == IF uniforms.program = "twolayer"
                 THEN steepness(hit.derivative, tilted(hitUV, hitDepth))
                 ELSE 0
       IN  hit' = [uv |-> hitUV, depth |-> hitDepth,
                   derivative |-> hit.derivative, steep |-> st,
                   isBackground |-> st > uniforms.uSteepnessLimit,
                   valid |-> boundsValid(hitUV)]
    /\ pc' = "main"
    /\ UNCHANGED <<uniforms, textures, vGluv, i, nF, nB, hitUV, hitDepth,
                   lastDepth, bgUV, fragColor>>
    /\ UNCHANGED outsideMarch

----------------------------------------------------------------------------
(* main() *)

\* A colour read from one texel
pure(c) == [src |-> "fg", fg |-> c, bg |-> c, factor |-> <<0, 1>>]

\* greatest common divisor, to keep fractions in lowest terms
RECURSIVE gcd(_, _)
gcd(a, b) == IF b = 0 THEN Abs(a) ELSE gcd(b, a % b)

\* smoothstep(0.0, e, x) for e = e[1]/e[2] > 0 and x = x[1]/x[2], x[2] > 0:
\* t = clamp(x / e, 0, 1); t * t * (3 - 2 t), as <<numerator, denominator>>
smoothstep(e, x) ==
    LET g  == gcd(x[1] * e[2], x[2] * e[1])
        tn == (x[1] * e[2]) \div g
        td == (x[2] * e[1]) \div g
    IN  IF tn <= 0 THEN <<0, 1>>
        ELSE IF tn >= td THEN <<1, 1>>
        ELSE <<tn * tn * (3 * td - 2 * tn), td * td * td>>

\* A test that never finds two-layer mode disabled
layerBlendDisabledNever == FALSE

\* "if (uLayerBlend < 0.01)": two-layer mode is disabled
layerBlendDisabled == uniforms.uLayerBlend < 1

\* A blend factor that is not scaled by uLayerBlend
blendFactorUnscaled(steep) ==
    LET over == <<(steep - uniforms.uSteepnessLimit) * 100,
                  Max(uniforms.uSteepnessLimit * 100, 1)>>
        soft == uniforms.uBlendSoftness
        sm   == smoothstep(<<soft[2] + soft[1], soft[2]>>, over)
    IN  <<sm[1] * 100, sm[2] * 100>>

\* blendFactor = smoothstep(0, 1 + uBlendSoftness, overThreshold) * uLayerBlend
\* with overThreshold = (steep - uSteepnessLimit) / max(uSteepnessLimit, 0.01);
\* uLayerBlend counts hundredths.
blendFactor(steep) ==
    LET over == <<(steep - uniforms.uSteepnessLimit) * 100,
                  Max(uniforms.uSteepnessLimit * 100, 1)>>
        soft == uniforms.uBlendSoftness
        sm   == smoothstep(<<soft[2] + soft[1], soft[2]>>, over)
    IN  <<sm[1] * uniforms.uLayerBlend, sm[2] * 100>>

\* "if (!hit.valid)" / "if (depth.outOfBounds)": opaque black
MainOutOfBounds ==
    /\ pc = "main"
    /\ ~hit.valid
    /\ fragColor' = black
    /\ pc' = "done"
    /\ UNCHANGED <<uniforms, textures, vGluv, i, nF, nB, hitUV, hitDepth,
                   lastDepth, hit, bgUV>>
    /\ UNCHANGED outsideMarch

\* The foreground sample is the output: the single-layer shader, or
\* "if (uLayerBlend < 0.01)", or the else of "if (hit.isBackground)".
MainForeground ==
    /\ pc = "main"
    /\ hit.valid
    /\ \/ uniforms.program = "depthflow"
       \/ layerBlendDisabled
       \/ ~hit.isBackground
    /\ fragColor' = pure(sampleTex("image", hit.uv, CoordDen))
    /\ pc' = "done"
    /\ UNCHANGED <<uniforms, textures, vGluv, i, nF, nB, hitUV, hitDepth,
                   lastDepth, hit, bgUV>>
    /\ UNCHANGED outsideMarch

\* "if (hit.isBackground)": call rayMarchBackground(vGluv)
MainBackground ==
    /\ pc = "main"
    /\ hit.valid
    /\ uniforms.program = "twolayer"
    /\ ~layerBlendDisabled
    /\ hit.isBackground
    /\ pc' = "bgFwd"
    /\ i' = 0
    /\ nF' = 0
    /\ nB' = 0
    /\ hitUV' = hitUV0
    /\ hitDepth' = 0
    /\ UNCHANGED <<uniforms, textures, vGluv, lastDepth, hit, bgUV, fragColor>>
    /\ UNCHANGED outsideMarch

\* rayMarchBackground has returned hitUV: sample uImageBG and mix
MainBlend ==
    /\ pc = "blend"
    /\ bgUV' = hitUV
    /\ fragColor' = [src |-> "blend",
                     fg |-> sampleTex("image", hit.uv, CoordDen),
                     bg |-> sampleTex("imageBG", hitUV, CoordDen),
                     factor |-> blendFactor(hit.steep)]
    /\ pc' = "done"
    /\ UNCHANGED <<uniforms, textures, vGluv, i, nF, nB, hitUV, hitDepth,
                   lastDepth, hit>>
    /\ UNCHANGED outsideMarch

MarchNext ==
    \/ ForwardWalkBreak
    \/ ForwardProbe
    \/ ForwardCap
    \/ BackwardRefine
    \/ BackwardCap
    \/ Finish
    \/ MainOutOfBounds
    \/ MainForeground
    \/ MainBackground
    \/ MainBlend

SpecMarch == MarchInit /\ [][MarchNext]_vars

----------------------------------------------------------------------------
(* The sampler on its own: sampleTex / sampleTexture called on one raster at
   one coordinate, and called again at the coordinate moved by the mirror
   period on the x axis, the y axis, or both.  Coordinates are numerators
   over SampleDen. *)

SampleDen == 4

\* rasters with no two texels equal, and the placeholder
SampleRasters == {Raster(3, 2, <<1, 2, 3, 4, 5, 6>>), Raster(2, 3, <<11, 12,
                  13, 14, 15, 16>>), placeholder}

\* image aspects (width / height)
SampleAspects == {<<2, 1>>, <<1, 1>>, <<3, 2>>}

\* the mirror period (4 * aspect, 4) as numerators over SampleDen
period ==
    <<(4 * uniforms.uImageAspect[1] * SampleDen) \div uniforms.uImageAspect[2],
      4 * SampleDen>>

\* the shifts by the period: on x, on y, on both
Shifts == {<<1, 0>>, <<0, 1>>, <<1, 1>>}

SampleInit ==
    /\ \E prog \in Programs, m \in BOOLEAN, a \in SampleAspects :
          uniforms = [program |-> prog, uMirror |-> m, uImageAspect |-> a]
    /\ \E r \in SampleRasters :
          textures = [image |-> r, depth |-> r, imageBG |-> placeholder,
                      depthBG |-> placeholder, mask |-> placeholder]
    /\ hitUV \in ((-MaxSample)..MaxSample) \X ((-MaxSample)..MaxSample)
    /\ pc = "sample"
    /\ vGluv = <<0, 0>>
    /\ i = 0 /\ nF = 0 /\ nB = 0
    /\ hitDepth = 0 /\ lastDepth = 0
    /\ hit = hit0 /\ bgUV = <<0, 0>> /\ fragColor = black
    /\ dp = dpIdle
    /\ AppInit

\* sampleTex(uImage, hitUV) and sampleDepthFG(hitUV) with uInvert = 0
SampleAt ==
    /\ pc = "sample"
    /\ fragColor' = pure(sampleTex("image", hitUV, SampleDen))
    /\ hitDepth' = sampleTex("depth", hitUV, SampleDen)
    /\ pc' = "again"
    /\ UNCHANGED <<uniforms, textures, vGluv, i, nF, nB, hitUV, lastDepth,
                   hit, bgUV>>
    /\ UNCHANGED outsideMarch

\* the same call once more, at a coordinate moved by the period
SampleShifted ==
    /\ pc = "again"
    /\ \E sh \in Shifts :
          LET uv == <<hitUV[1] + sh[1] * period[1],
                      hitUV[2] + sh[2] * period[2]>>
          IN  /\ bgUV' = uv
              /\ fragColor' = [fragColor EXCEPT
                                  !.src = "shifted",
                                  !.bg = sampleTex("image", uv, SampleDen)]
    /\ lastDepth' = sampleTex("depth", hitUV, SampleDen)
    /\ pc' = "done"
    /\ UNCHANGED <<uniforms, textures, vGluv, i, nF, nB, hitUV, hitDepth,
                   hit>>
    /\ UNCHANGED outsideMarch

SampleNext ==
    \/ SampleAt
    \/ SampleShifted

SpecSample == SampleInit /\ [][SampleNext]_vars

----------------------------------------------------------------------------
(* The depth-layer pipeline: DepthProcessor.process() and its stages.
   Depth values are Float32 numbers in [0, 1]; here they are fixed-point
   integers, 1200 to one byte step (1.0 is 255 * 1200), and a quotient is
   rounded down where Float32 rounds to nearest.  Arrays are row-major,
   index y * width + x + 1. *)

\* "data[i * 4] / 255.0"
fromByte(b) == b * 1200

One == fromByte(255)

xOf(k, width) == (k - 1) % width

yOf(k, width) == (k - 1) \div width

at(x, y, width) == y * width + x + 1

RECURSIVE sum(_)
sum(s) == IF s = <<>> THEN 0 ELSE Head(s) + sum(Tail(s))

\* setThreshold and setDilation; the threshold is in hundredths
setThreshold(value) == Max(10, Min(90, value))

setDilation(value) == Max(0, Min(20, value))

\* A gradient pass that marks every interior pixel on a steep edge
createForegroundMaskAnyDepth(depth, width, height, foregroundThreshold) ==
    [k \in 1..(width * height) |->
        LET x == xOf(k, width)
            y == yOf(k, width)
        IN  IF depth[k] * 100 >= foregroundThreshold * One THEN 1
            ELSE IF /\ x >= 1 /\ x < width - 1 /\ y >= 1 /\ y < height - 1
                    /\ LET dx == Abs(depth[k + 1] - depth[k - 1]) \div 1200
                           dy == Abs(depth[k + width] - depth[k - width])
                                    \div 1200
                       IN  4 * (dx * dx + dy * dy) > 153 * 153
                 THEN 1 ELSE 0]

\* The mask of the threshold pass and the gradient pass.  A depth byte/255
\* that equals the threshold (0.2, 0.4, 0.6 or 0.8) is stored in the
\* Float32Array as a number above the double it is compared with, so the
\* comparison "depth[i] > foregroundThreshold" holds at equality too.
createForegroundMask(depth, width, height, foregroundThreshold) ==
    [k \in 1..(width * height) |->
        LET x == xOf(k, width)
            y == yOf(k, width)
        IN  IF depth[k] * 100 >= foregroundThreshold * One THEN 1
            ELSE IF /\ x >= 1 /\ x < width - 1 /\ y >= 1 /\ y < height - 1
                    /\ LET dx == Abs(depth[k + 1] - depth[k - 1]) \div 1200
                           dy == Abs(depth[k + width] - depth[k - width])
                                    \div 1200
                       IN  4 * (dx * dx + dy * dy) > 153 * 153
                    /\ depth[k] * 1000 > foregroundThreshold * 7 * One
                 THEN 1 ELSE 0]

\* A dilation whose kernel is one pixel wider than the radius
dilateMaskWide(mask, width, height, radius) ==
    [k \in 1..(width * height) |->
        IF \E ky \in (-radius - 1)..(radius + 1),
              kx \in (-radius - 1)..(radius + 1) :
              /\ kx * kx + ky * ky <= (radius + 1) * (radius + 1)
              /\ mask[at(Min(Max(xOf(k, width) + kx, 0), width - 1),
                         Min(Max(yOf(k, width) + ky, 0), height - 1),
                         width)] = 1
        THEN 1 ELSE 0]

\* A dilation with a square kernel
dilateMaskSquare(mask, width, height, radius) ==
    IF radius <= 0 THEN mask
    ELSE [k \in 1..(width * height) |->
            IF \E ky \in (-radius)..radius, kx \in (-radius)..radius :
                  mask[at(Min(Max(xOf(k, width) + kx, 0), width - 1),
                          Min(Max(yOf(k, width) + ky, 0), height - 1),
                          width)] = 1
            THEN 1 ELSE 0]

dilateMask(mask, width, height, radius) ==
    IF radius <= 0 THEN mask
    ELSE [k \in 1..(width * height) |->
            IF \E ky \in (-radius)..radius, kx \in (-radius)..radius :
                  /\ kx * kx + ky * ky <= radius * radius
                  /\ mask[at(Min(Max(xOf(k, width) + kx, 0), width - 1),
                             Min(Max(yOf(k, width) + ky, 0), height - 1),
                             width)] = 1
            THEN 1 ELSE 0]

\* A first level that keeps the depth of the masked pixels
unmaskedLevelKeepsDepth(depth, mask, width, height) ==
    [data |-> depth,
     valid |-> [k \in 1..(width * height) |->
                  IF mask[k] = 0 THEN 1 ELSE 0],
     width |-> width, height |-> height]

\* The first lines of inpaintBackground: the level the pyramid starts from
unmaskedLevel(depth, mask, width, height) ==
    [data |-> [k \in 1..(width * height) |->
                  IF mask[k] = 0 THEN depth[k] ELSE 0],
     valid |-> [k \in 1..(width * height) |->
                  IF mask[k] = 0 THEN 1 ELSE 0],
     width |-> width, height |-> height]

\* A push that divides by the four samples of the block, valid or not
pushLevelOfFour(lv) ==
    LET w == lv.width
        h == lv.height
        newW == Max(1, w \div 2)
        newH == Max(1, h \div 2)
        block == << <<0, 0>>, <<1, 0>>, <<0, 1>>, <<1, 1>> >>
        srcIdx(k, d) == at(Min(xOf(k, newW) * 2 + d[1], w - 1),
                           Min(yOf(k, newW) * 2 + d[2], h - 1), w)
        count(k) == sum([j \in 1..4 |-> lv.valid[srcIdx(k, block[j])]])
        total(k) == sum([j \in 1..4 |->
                           IF lv.valid[srcIdx(k, block[j])] = 1
                           THEN lv.data[srcIdx(k, block[j])] ELSE 0])
    IN  [data |-> [k \in 1..(newW * newH) |->
                      IF count(k) > 0 THEN total(k) \div 4 ELSE 0],
         valid |-> [k \in 1..(newW * newH) |->
                      IF count(k) > 0 THEN 1 ELSE 0],
         width |-> newW, height |-> newH]

\* One turn of buildPyramid's while loop: the next coarser level
pushLevel(lv) ==
    LET w == lv.width
        h == lv.height
        newW == Max(1, w \div 2)
        newH == Max(1, h \div 2)
        block == << <<0, 0>>, <<1, 0>>, <<0, 1>>, <<1, 1>> >>
        srcIdx(k, d) == at(Min(xOf(k, newW) * 2 + d[1], w - 1),
                           Min(yOf(k, newW) * 2 + d[2], h - 1), w)
        count(k) == sum([j \in 1..4 |-> lv.valid[srcIdx(k, block[j])]])
        total(k) == sum([j \in 1..4 |->
                           IF lv.valid[srcIdx(k, block[j])] = 1
                           THEN lv.data[srcIdx(k, block[j])] ELSE 0])
    IN  [data |-> [k \in 1..(newW * newH) |->
                      IF count(k) > 0 THEN total(k) \div count(k) ELSE 0],
         valid |-> [k \in 1..(newW * newH) |->
                      IF count(k) > 0 THEN 1 ELSE 0],
         width |-> newW, height |-> newH]

\* buildPyramid, from the levels built so far
RECURSIVE buildPyramid(_)
buildPyramid(levels) ==
    LET last == levels[Len(levels)]
    IN  IF last.width > 1 \/ last.height > 1
        THEN buildPyramid(Append(levels, pushLevel(last)))
        ELSE levels

\* One turn of reconstructFromPyramid's while loop; a pixel that is filled
\* from nowhere keeps the 0 its Float32Array was created with
pullLevel(res, nextLevel) ==
    LET newW == nextLevel.width
        newH == nextLevel.height
        srcIdx(k) == at(Min(xOf(k, newW) \div 2, res.width - 1),
                        Min(yOf(k, newW) \div 2, res.height - 1), res.width)
    IN  [data |-> [k \in 1..(newW * newH) |->
                      IF nextLevel.valid[k] = 1 THEN nextLevel.data[k]
                      ELSE IF res.valid[srcIdx(k)] = 1
                           THEN res.data[srcIdx(k)] ELSE 0],
         valid |-> [k \in 1..(newW * newH) |->
                      IF nextLevel.valid[k] = 1 \/ res.valid[srcIdx(k)] = 1
                      THEN 1 ELSE 0],
         width |-> newW, height |-> newH]

\* The pull loop from level n of the pyramid down to level 1
RECURSIVE pullFrom(_, _, _)
pullFrom(pyramid, n, res) ==
    IF n = 1 THEN res
    ELSE pullFrom(pyramid, n - 1, pullLevel(res, pyramid[n - 1]))

\* A pass of smoothMaskedRegions that averages every pixel of its range
smoothPassUnmasked(temp, mask, width, height) ==
    [k \in 1..(width * height) |->
        LET x == xOf(k, width)
            y == yOf(k, width)
        IN  IF x >= 2 /\ x < width - 2 /\ y >= 2 /\ y < height - 2
            THEN sum([j \in 1..25 |->
                        temp[at(x + ((j - 1) % 5) - 2,
                                y + ((j - 1) \div 5) - 2, width)]]) \div 25
            ELSE temp[k]]

\* A pass of smoothMaskedRegions that stores the sum, not the average
smoothPassSum(temp, mask, width, height) ==
    [k \in 1..(width * height) |->
        LET x == xOf(k, width)
            y == yOf(k, width)
        IN  IF /\ x >= 2 /\ x < width - 2 /\ y >= 2 /\ y < height - 2
               /\ mask[k] # 0
            THEN sum([j \in 1..25 |->
                        temp[at(x + ((j - 1) % 5) - 2,
                                y + ((j - 1) \div 5) - 2, width)]])
            ELSE temp[k]]

\* One pass of smoothMaskedRegions (kernelSize 2)
smoothPass(temp, mask, width, height) ==
    [k \in 1..(width * height) |->
        LET x == xOf(k, width)
            y == yOf(k, width)
        IN  IF /\ x >= 2 /\ x < width - 2 /\ y >= 2 /\ y < height - 2
               /\ mask[k] # 0
            THEN sum([j \in 1..25 |->
                        temp[at(x + ((j - 1) % 5) - 2,
                                y + ((j - 1) \div 5) - 2, width)]]) \div 25
            ELSE temp[k]]

smoothMaskedRegions(data, mask, width, height) ==
    smoothPass(smoothPass(smoothPass(data, mask, width, height),
                          mask, width, height), mask, width, height)

inpaintBackground(depth, mask, width, height) ==
    LET pyramid == buildPyramid(<<unmaskedLevel(depth, mask, width, height)>>)
        pulled == pullFrom(pyramid, Len(pyramid), pyramid[Len(pyramid)])
    IN  smoothMaskedRegions(pulled.data, mask, width, height)

\* "Math.round(Math.max(0, Math.min(1, data[i])) * 255)"
floatToImageData(data, width, height) ==
    Raster(width, height,
           [k \in 1..(width * height) |->
               (Max(0, Min(One, data[k])) + 600) \div 1200])

\* the mask is in the red channel, which is the channel the shader reads
maskToImageData(mask, width, height) ==
    Raster(width, height, [k \in 1..(width * height) |-> mask[k] * 255])

\* process(depthImageData) of a processor with the given parameters
process(image, foregroundThreshold, edgeDilation) ==
    LET depth == [k \in 1..(image.w * image.h) |-> fromByte(image.data[k])]
        mask == createForegroundMask(depth, image.w, image.h,
                                     foregroundThreshold)
        dilatedMask == dilateMask(mask, image.w, image.h, edgeDilation)
    IN  [foreground |-> floatToImageData(depth, image.w, image.h),
         background |->
             floatToImageData(inpaintBackground(depth, dilatedMask,
                                                image.w, image.h),
                              image.w, image.h),
         mask |-> maskToImageData(dilatedMask, image.w, image.h)]

\* A depth raster with a foreground rectangle [x0, x1) x [y0, y1) of near
\* bytes on a far ground; no two of its pixels are equal
DepthImage(w, h, x0, x1, y0, y1) ==
    Raster(w, h, [k \in 1..(w * h) |->
                    IF /\ xOf(k, w) >= x0 /\ xOf(k, w) < x1
                       /\ yOf(k, w) >= y0 /\ yOf(k, w) < y1
                    THEN 200 + k ELSE 10 + k])

\* A 3x3 depth raster around a silhouette edge: the centre byte c lies at
\* 0.7 of the default threshold (71.4), at the threshold (102) or next to
\* them, between the bytes l and r of its row; no two pixels are equal
SilhouetteImage(c, l, r) == Raster(3, 3, <<1, 2, 3, l, c, r, 4, 5, 6>>)

DepthImages ==
    { DepthImage(w, h, x[1], x[2], y[1], y[2]) :
        w \in 1..MaxSide, h \in 1..MaxSide,
        x \in {r \in (0..MaxSide) \X (0..MaxSide) : r[1] <= r[2]},
        y \in {r \in (0..MaxSide) \X (0..MaxSide) : r[1] <= r[2]} }
    \cup { SilhouetteImage(c, lr[1], lr[2]) :
              c \in {71, 72, 102, 103},
              lr \in {<<7, 83>>, <<7, 84>>, <<84, 7>>, <<8, 9>>} }

\* process() has been called
LayersInit ==
    \E image \in DepthImages, radius \in 0..MaxRadius :
        /\ dp = [dpIdle EXCEPT !.pc = "process", !.image = image,
                               !.edgeDilation = setDilation(radius)]
        /\ MarchIdle
        /\ AppInit

\* process() lines 23-32: the depth array and the foreground mask
CreateForegroundMask ==
    /\ dp.pc = "process"
    /\ LET depth == [k \in 1..(dp.image.w * dp.image.h) |->
                        fromByte(dp.image.data[k])]
       IN  dp' = [dp EXCEPT !.pc = "dilate", !.depth = depth,
                     !.mask = createForegroundMask(depth, dp.image.w,
                                  dp.image.h, dp.foregroundThreshold)]
    /\ UNCHANGED outsideLayers

DilateMask ==
    /\ dp.pc = "dilate"
    /\ dp' = [dp EXCEPT !.pc = "inpaint",
                 !.mask = dilateMask(dp.mask, dp.image.w, dp.image.h,
                                     dp.edgeDilation)]
    /\ UNCHANGED outsideLayers

InpaintBackground ==
    /\ dp.pc = "inpaint"
    /\ dp' = [dp EXCEPT !.pc = "push",
                 !.levels = <<unmaskedLevel(dp.depth, dp.mask, dp.image.w,
                                            dp.image.h)>>]
    /\ UNCHANGED outsideLayers

lastLevel == dp.levels[Len(dp.levels)]

BuildPyramidLevel ==
    /\ dp.pc = "push"
    /\ lastLevel.width > 1 \/ lastLevel.height > 1
    /\ dp' = [dp EXCEPT !.levels = Append(dp.levels, pushLevel(lastLevel))]
    /\ UNCHANGED outsideLayers

\* the pyramid is built; reconstructFromPyramid starts from its last level
ReconstructStart ==
    /\ dp.pc = "push"
    /\ ~(lastLevel.width > 1 \/ lastLevel.height > 1)
    /\ dp' = [dp EXCEPT !.pc = IF Len(dp.levels) > 1 THEN "pull" ELSE "smooth",
                 !.level = Len(dp.levels), !.result = lastLevel]
    /\ UNCHANGED outsideLayers

ReconstructLevel ==
    /\ dp.pc = "pull"
    /\ dp' = [dp EXCEPT !.pc = IF dp.level - 1 > 1 THEN "pull" ELSE "smooth",
                 !.level = dp.level - 1,
                 !.result = pullLevel(dp.result, dp.levels[dp.level - 1])]
    /\ UNCHANGED outsideLayers

SmoothPass ==
    /\ dp.pc = "smooth"
    /\ dp.pass < 3
    /\ dp' = [dp EXCEPT !.pass = dp.pass + 1,
                 !.result.data = smoothPass(dp.result.data, dp.mask,
                                            dp.image.w, dp.image.h)]
    /\ UNCHANGED outsideLayers

\* process() lines 41-49
ToImageData ==
    /\ dp.pc = "smooth"
    /\ dp.pass = 3
    /\ dp' = [dp EXCEPT !.pc = "done",
                 !.layers =
                    [foreground |-> floatToImageData(dp.depth, dp.image.w,
                                                     dp.image.h),
                     background |-> floatToImageData(dp.result.data,
                                        dp.image.w, dp.image.h),
                     mask |-> maskToImageData(dp.mask, dp.image.w,
                                              dp.image.h)]]
    /\ UNCHANGED outsideLayers



LayersNext ==
    \/ CreateForegroundMask
    \/ DilateMask
    \/ InpaintBackground
    \/ BuildPyramidLevel
    \/ ReconstructStart
    \/ ReconstructLevel
    \/ SmoothPass
    \/ ToImageData

\* The pipeline on its own: no frame is being drawn
SpecLayers == LayersInit /\ [][LayersNext]_vars

----------------------------------------------------------------------------
(* The two-layer demo: Renderer, DepthEstimator and TwoLayerDepthDemo.  Every
   action is one run-to-completion piece of JavaScript: an event handler or
   frame callback up to its first await, or the continuation of an await. *)

\* the depth maps a file or the depth model delivers
DepthMaps == {Raster(2, 1, <<110, 255>>), Raster(2, 1, <<30, 140>>)}

\* the canvases loadImageAsCanvas delivers; an image without intrinsic size
\* gives a canvas with a zero width or height
Images == {imageRaster, Raster(0, 0, <<>>), Raster(2, 0, <<>>)}

\* the positions of the threshold slider, in hundredths
Thresholds == {40, 50}

\* JavaScript's "width / height"
divide(width, height) ==
    IF height = 0 THEN (IF width = 0 THEN <<"NaN">> ELSE <<"Infinity">>)
    ELSE <<width, height>>

\* A texImage2D that leaves the texels after the first as they were
texImage2DTorn(old, source) ==
    IF Len(old.data) = Len(source.data)
    THEN [source EXCEPT !.data = [k \in 1..Len(source.data) |->
                                     IF k = 1 THEN source.data[k]
                                     ELSE old.data[k]]]
    ELSE source

\* gl.texImage2D into a new texture that then takes the old one's place
texImage2D(old, source) == source

\* uploadImageDataTexture and uploadTexture
uploadTexture(tex, name, source) ==
    [tex EXCEPT ![name] = texImage2D(tex[name], source)]

\* processDepthLayers: the renderer fields and textures it leaves
processDepthLayers(r, tex) ==
    LET currentParams == <<state.foregroundThreshold, state.maskDilation>>
        layers == process(r.originalDepth,
                          setThreshold(state.foregroundThreshold),
                          setDilation(state.maskDilation))
    IN  IF r.originalDepth = null \/ currentParams = r.lastProcessParams
        THEN [renderer |-> r, textures |-> tex]
        ELSE [renderer |-> [r EXCEPT !.lastProcessParams = currentParams],
              textures |->
                  uploadTexture(
                      uploadTexture(
                          uploadTexture(tex, "depth", layers.foreground),
                          "depthBG", layers.background),
                      "mask", layers.mask)]

\* Renderer.loadDepthFromImageData
loadDepthFromImageData(imageData) ==
    processDepthLayers([renderer EXCEPT !.originalDepth = imageData],
                       textures)

\* TwoLayerDepthDemo.loadImageOnly, once the image has loaded
LoadImageOnly ==
    \E image \in Images :
        /\ app' = [app EXCEPT !.originalImage = image,
                              !.status = "Image loaded"]
        /\ renderer' = [renderer EXCEPT
                           !.imageAspect = divide(image.w, image.h)]
        /\ textures' = uploadTexture(textures, "image", image)
        /\ frame' = noFrame
        /\ UNCHANGED <<state, estimator, dp, pixelVars>>

\* TwoLayerDepthDemo.loadDepth, once the file is decoded
LoadDepth ==
    \E d \in DepthMaps :
        /\ app' = [app EXCEPT !.depthMap = d, !.status = "Depth map loaded"]
        /\ renderer' = loadDepthFromImageData(d).renderer
        /\ textures' = loadDepthFromImageData(d).textures
        /\ frame' = noFrame
        /\ UNCHANGED <<state, estimator, dp, pixelVars>>

\* the "input" handlers of the threshold and dilation sliders
SetThreshold ==
    \E v \in Thresholds :
        /\ v # state.foregroundThreshold
        /\ state' = [state EXCEPT !.foregroundThreshold = v]
        /\ frame' = noFrame
        /\ UNCHANGED <<renderer, textures, estimator, app, dp, pixelVars>>

SetDilation ==
    \E v \in 0..MaxRadius :
        /\ v # state.maskDilation
        /\ state' = [state EXCEPT !.maskDilation = v]
        /\ frame' = noFrame
        /\ UNCHANGED <<renderer, textures, estimator, app, dp, pixelVars>>

\* Renderer.render, called by every turn of the render loop
Render ==
    /\ renderer' = processDepthLayers(renderer, textures).renderer
    /\ textures' = processDepthLayers(renderer, textures).textures
    /\ frame' = [drawn |-> TRUE, textures |-> textures',
                 imageAspect |-> renderer.imageAspect,
                 originalDepth |-> renderer.originalDepth,
                 foregroundThreshold |-> state.foregroundThreshold,
                 maskDilation |-> state.maskDilation]
    /\ frame' # frame
    /\ UNCHANGED <<state, estimator, app, dp, pixelVars>>

\* loadModels calls DepthEstimator.init
LoadModels ==
    /\ IF estimator.model \/ estimator.loading
       THEN estimator' = [estimator EXCEPT !.lastInit = "returned"]
       ELSE estimator' = [estimator EXCEPT !.loading = TRUE,
                                           !.lastInit = "loading"]
    /\ app' = [app EXCEPT !.status = "Loading depth model"]
    /\ frame' = noFrame
    /\ UNCHANGED <<renderer, textures, state, dp, pixelVars>>

\* pipeline() resolves: init stores the model and returns
PipelineLoaded ==
    /\ estimator.loading /\ ~estimator.model /\ ~estimator.thrown
    /\ estimator' = [estimator EXCEPT !.model = TRUE, !.loading = FALSE]
    /\ app' = [app EXCEPT !.status = "Models loaded"]
    /\ frame' = noFrame
    /\ UNCHANGED <<renderer, textures, state, dp, pixelVars>>

\* pipeline() rejects: init throws at its await, loadModels catches
PipelineFailed ==
    /\ estimator.loading /\ ~estimator.model /\ ~estimator.thrown
    /\ estimator' = [estimator EXCEPT !.thrown = TRUE, !.lastInit = "threw"]
    /\ app' = [app EXCEPT !.status = "Model loading failed"]
    /\ frame' = noFrame
    /\ UNCHANGED <<renderer, textures, state, dp, pixelVars>>

\* processImage up to "await this.depthEstimator.estimate(file)"
ProcessImage ==
    \E image \in Images :
        /\ "estimate" \notin app.pending
        /\ app' = [app EXCEPT !.originalImage = image,
                              !.status = "Estimating depth",
                              !.pending = @ \cup {"estimate"}]
        /\ renderer' = [renderer EXCEPT
                           !.imageAspect = divide(image.w, image.h)]
        /\ textures' = uploadTexture(textures, "image", image)
        /\ frame' = noFrame
        /\ UNCHANGED <<state, estimator, dp, pixelVars>>

\* processLayers up to "await this.inpainter.inpaint(...)"
processLayers(a) ==
    [a EXCEPT !.status = "Running AI inpainting",
              !.pending = @ \cup {"inpaint"},
              !.layers = process(a.depthMap,
                                 setThreshold(state.foregroundThreshold),
                                 setDilation(state.maskDilation))]

\* estimate() resolves; processImage goes on into processLayers
EstimateDone ==
    \E d \in DepthMaps :
        /\ "estimate" \in app.pending
        /\ "inpaint" \notin app.pending
        /\ estimator.model
        /\ app' = processLayers([app EXCEPT !.depthMap = d,
                                            !.pending = @ \ {"estimate"}])
        /\ frame' = noFrame
        /\ UNCHANGED <<renderer, textures, state, estimator, dp, pixelVars>>

\* estimate() throws (no model) or rejects; processImage catches
EstimateFails ==
    /\ "estimate" \in app.pending
    /\ app' = [app EXCEPT !.status = "Processing failed",
                          !.pending = @ \ {"estimate"}]
    /\ frame' = noFrame
    /\ UNCHANGED <<renderer, textures, state, estimator, dp, pixelVars>>

\* the "Re-process Layers" button: processLayers on what is loaded
ProcessLayers ==
    /\ "inpaint" \notin app.pending
    /\ IF app.originalImage = null \/ app.depthMap = null
       THEN app' = [app EXCEPT !.status = "No image or depth map loaded"]
       ELSE app' = processLayers(app)
    /\ frame' = noFrame
    /\ UNCHANGED <<renderer, textures, state, estimator, dp, pixelVars>>

\* Renderer.loadLayers with all five layers
loadLayers(tex, l) ==
    uploadTexture(
        uploadTexture(
            uploadTexture(
                uploadTexture(
                    uploadTexture(tex, "image", l.image),
                    "depth", l.depth),
                "imageBG", l.imageBG),
            "depthBG", l.depthBG),
        "mask", l.mask)

\* An inpainting failure handled after the depth layers were uploaded
InpaintFailsUploaded ==
    /\ "inpaint" \in app.pending
    /\ app' = [app EXCEPT !.status = "Layer processing failed",
                          !.pending = @ \ {"inpaint"}, !.layers = null]
    /\ textures' = uploadTexture(textures, "depthBG", app.layers.background)
    /\ frame' = noFrame
    /\ UNCHANGED <<renderer, state, estimator, dp, pixelVars>>

\* inpaint() resolves: processLayers uploads the layers
InpaintDone ==
    /\ "inpaint" \in app.pending
    /\ app' = [app EXCEPT !.status = "Done",
                          !.pending = @ \ {"inpaint"}, !.layers = null]
    /\ textures' = loadLayers(textures,
                      [image |-> app.originalImage,
                       depth |-> app.layers.foreground,
                       imageBG |-> imageBGRaster,
                       depthBG |-> app.layers.background,
                       mask |-> app.layers.mask])
    /\ frame' = noFrame
    /\ UNCHANGED <<renderer, state, estimator, dp, pixelVars>>

\* inpaint() rejects: processLayers catches
InpaintFails ==
    /\ "inpaint" \in app.pending
    /\ app' = [app EXCEPT !.status = "Layer processing failed",
                          !.pending = @ \ {"inpaint"}, !.layers = null]
    /\ frame' = noFrame
    /\ UNCHANGED <<renderer, textures, state, estimator, dp, pixelVars>>

\* The demo as constructed, with placeholder textures; no depth processing
\* of its own and no frame program running
DemoInit ==
    /\ AppInit
    /\ dp = dpIdle
    /\ MarchIdle

\* Loading files, moving the mask sliders and drawing frames
RendererNext ==
    \/ LoadImageOnly
    \/ LoadDepth
    \/ SetThreshold
    \/ SetDilation
    \/ Render

\* The renderer of the demo, sliders and file loads only
SpecRenderer == DemoInit /\ [][RendererNext]_vars

\* Loading the model and processing images, with the sliders left alone
AppNext ==
    \/ LoadDepth
    \/ Render
    \/ LoadModels
    \/ PipelineLoaded
    \/ PipelineFailed
    \/ ProcessImage
    \/ EstimateDone
    \/ EstimateFails
    \/ ProcessLayers
    \/ InpaintDone
    \/ InpaintFails

\* The demo with its models and its asynchronous image processing
SpecApp == DemoInit /\ [][AppNext]_vars

----------------------------------------------------------------------------
(* DepthEstimator.init on its own, in its two versions: the main
   application's ("main": WebGPU, then WASM) and the two-layer demo's ("demo":
   one pipeline() call with device 'webgpu').  The browser is part of the
   state: what navigator.gpu gives, and which backends could load the model. *)

Backends == {"webgpu", "wasm"}

\* navigator.gpu is undefined; requestAdapter() resolves to null, rejects,
\* or resolves to an adapter
Gpus == {"undefined", "null", "rejects", "adapter"}

EstimatorInit ==
    /\ \E kind \in {"main", "demo"}, can \in SUBSET Backends, gpu \in Gpus :
          /\ "webgpu" \in can => gpu = "adapter"
          /\ estimator = [model |-> FALSE, loading |-> FALSE,
                          thrown |-> FALSE, lastInit |-> "none",
                          kind |-> kind, can |-> can, gpu |-> gpu,
                          step |-> "idle", tried |-> <<>>,
                          estimate |-> "none"]
    /\ renderer = [originalDepth |-> null, lastProcessParams |-> <<>>,
                   imageAspect |-> <<1, 1>>]
    /\ state = [foregroundThreshold |-> 40, maskDilation |-> 5]
    /\ app = [originalImage |-> null, depthMap |-> null, status |-> "",
              pending |-> {}, layers |-> null]
    /\ frame = noFrame
    /\ dp = dpIdle
    /\ MarchIdle

\* a call of init(), up to its first await; a call made while another call
\* is loading returns at "if (this.model || this.loading) return;"
InitModel ==
    /\ estimator.lastInit # "returned"
    /\ IF estimator.model \/ estimator.loading
       THEN estimator' = [estimator EXCEPT !.lastInit = "returned"]
       ELSE estimator' =
              [estimator EXCEPT
                 !.loading = TRUE,
                 !.lastInit = "loading",
                 !.step = IF estimator.kind = "demo" THEN "webgpu"
                          ELSE IF estimator.gpu = "undefined" THEN "wasm"
                          ELSE "adapter"]
    /\ UNCHANGED <<renderer, textures, state, app, frame, dp, pixelVars>>

\* "await navigator.gpu.requestAdapter()" settles
AdapterSettled ==
    /\ estimator.step = "adapter"
    /\ estimator' = [estimator EXCEPT
                        !.step = IF estimator.gpu = "adapter" THEN "webgpu"
                                 ELSE "wasm"]
    /\ UNCHANGED <<renderer, textures, state, app, frame, dp, pixelVars>>

\* "await pipeline(..., { device: 'webgpu' })" settles: the model is stored,
\* or the rejection is caught (main) or leaves init (demo)
WebGPUSettled ==
    /\ estimator.step = "webgpu"
    /\ estimator' =
          IF "webgpu" \in estimator.can
          THEN [estimator EXCEPT !.model = TRUE, !.loading = FALSE,
                                 !.step = "idle", !.lastInit = "loaded",
                                 !.tried = Append(@, "webgpu")]
          ELSE IF estimator.kind = "main"
          THEN [estimator EXCEPT !.step = "wasm",
                                 !.tried = Append(@, "webgpu")]
          ELSE [estimator EXCEPT !.thrown = TRUE, !.step = "idle",
                                 !.lastInit = "threw",
                                 !.tried = Append(@, "webgpu")]
    /\ UNCHANGED <<renderer, textures, state, app, frame, dp, pixelVars>>

\* "await pipeline(..., { device: 'wasm' })" settles
WasmSettled ==
    /\ estimator.step = "wasm"
    /\ estimator' =
          IF "wasm" \in estimator.can
          THEN [estimator EXCEPT !.model = TRUE, !.loading = FALSE,
                                 !.step = "idle", !.lastInit = "loaded",
                                 !.tried = Append(@, "wasm")]
          ELSE [estimator EXCEPT !.thrown = TRUE, !.step = "idle",
                                 !.lastInit = "threw",
                                 !.tried = Append(@, "wasm")]
    /\ UNCHANGED <<renderer, textures, state, app, frame, dp, pixelVars>>

\* a call of estimate(): "if (!this.model) throw ..."
Estimate ==
    /\ estimator' = [estimator EXCEPT
                        !.estimate = IF estimator.model THEN "depth"
                                     ELSE "threw"]
    /\ estimator' # estimator
    /\ UNCHANGED <<renderer, textures, state, app, frame, dp, pixelVars>>

EstimatorNext ==
    \/ Estimate
    \/ InitModel
    \/ AdapterSettled
    \/ WebGPUSettled
    \/ WasmSettled

SpecEstimator == EstimatorInit /\ [][EstimatorNext]_vars

----------------------------------------------------------------------------
(* The main application's image upload with automatic depth generation
   (UI.bindImageUpload, UI.generateDepthMapFromImage).  Every "change" event
   of the file input starts its own run of the async handler; app.handlers
   holds, for each run, its file and the await it stands at.  The renderer
   is reduced to which file its colour raster shows and which file its depth
   raster was estimated from. *)

Files == {"A", "B"}

UploadInit ==
    /\ app = [handlers |-> <<>>, depthGenerationInProgress |-> FALSE,
              currentImageBlob |-> "none"]
    /\ renderer = [image |-> "none", originalDepth |-> "none"]
    /\ state = [foregroundThreshold |-> 40, maskDilation |-> 5]
    /\ estimator = [model |-> TRUE, loading |-> FALSE]
    /\ frame = noFrame
    /\ dp = dpIdle
    /\ MarchIdle

\* the handler h goes on to the position p
moveTo(h, p) == [app.handlers EXCEPT ![h].pc = p]

\* "change" on the file input: the handler runs up to its awaits before
\* renderer.loadImage (saveMediaBlob, resizeImage, createImageBitmap)
ImageUpload ==
    \E file \in Files :
        /\ Len(app.handlers) < MaxUploads
        /\ app' = [app EXCEPT
                      !.handlers = Append(@, [file |-> file, pc |-> "load"]),
                      !.currentImageBlob = file]
        /\ UNCHANGED <<renderer, textures, state, estimator, frame, dp,
                       pixelVars>>

\* renderer.loadImage after createImageBitmap: the colour raster is replaced
LoadImage ==
    \E h \in DOMAIN app.handlers :
        /\ app.handlers[h].pc = "load"
        /\ renderer' = [renderer EXCEPT !.image = app.handlers[h].file]
        /\ app' = [app EXCEPT !.handlers = moveTo(h, "generate")]
        /\ UNCHANGED <<textures, state, estimator, frame, dp, pixelVars>>

\* 'click' on the regenerate button with an image blob at hand: the handler
\* and generateDepthMapFromImage both return when a generation is in
\* progress; otherwise the generation starts
RegenerateClick ==
    /\ Len(app.handlers) < MaxUploads
    /\ app.currentImageBlob # "none"
    /\ app' = IF app.depthGenerationInProgress
              THEN [app EXCEPT
                      !.handlers = Append(@, [file |-> app.currentImageBlob,
                                              pc |-> "returned"])]
              ELSE [app EXCEPT
                      !.handlers = Append(@, [file |-> app.currentImageBlob,
                                              pc |-> "estimate"]),
                      !.depthGenerationInProgress = TRUE]
    /\ UNCHANGED <<renderer, textures, state, estimator, frame, dp,
                   pixelVars>>

\* A generateDepthMapFromImage that starts whatever is in progress
GenerateDepthMapUnguarded ==
    \E h \in DOMAIN app.handlers :
        /\ app.handlers[h].pc = "generate"
        /\ app' = [app EXCEPT !.handlers = moveTo(h, "estimate"),
                              !.depthGenerationInProgress = TRUE]
        /\ UNCHANGED <<renderer, textures, state, estimator, frame, dp,
                       pixelVars>>

\* generateDepthMapFromImage up to "await this.depthEstimator.init(...)":
\* it returns at once when a generation is in progress
GenerateDepthMap ==
    \E h \in DOMAIN app.handlers :
        /\ app.handlers[h].pc = "generate"
        /\ app' = IF app.depthGenerationInProgress
                  THEN [app EXCEPT !.handlers = moveTo(h, "returned")]
                  ELSE [app EXCEPT !.handlers = moveTo(h, "estimate"),
                                   !.depthGenerationInProgress = TRUE]
        /\ UNCHANGED <<renderer, textures, state, estimator, frame, dp,
                       pixelVars>>

\* init() and estimate(imageBlob) have resolved: loadDepthFromImageData, up
\* to "await this.saveDepthImageData(depthData)"
DepthEstimated ==
    \E h \in DOMAIN app.handlers :
        /\ app.handlers[h].pc = "estimate"
        /\ renderer' = [renderer EXCEPT
                           !.originalDepth = app.handlers[h].file]
        /\ app' = [app EXCEPT !.handlers = moveTo(h, "save")]
        /\ UNCHANGED <<textures, state, estimator, frame, dp, pixelVars>>

\* init() or estimate() has rejected: the finally block, then the handler's
\* catch
DepthEstimateFails ==
    \E h \in DOMAIN app.handlers :
        /\ app.handlers[h].pc = "estimate"
        /\ app' = [app EXCEPT !.handlers = moveTo(h, "failed"),
                              !.depthGenerationInProgress = FALSE]
        /\ UNCHANGED <<renderer, textures, state, estimator, frame, dp,
                       pixelVars>>

\* saveDepthImageData has settled: the finally block
DepthSaved ==
    \E h \in DOMAIN app.handlers :
        /\ app.handlers[h].pc = "save"
        /\ app' = [app EXCEPT !.handlers = moveTo(h, "done"),
                              !.depthGenerationInProgress = FALSE]
        /\ UNCHANGED <<renderer, textures, state, estimator, frame, dp,
                       pixelVars>>

UploadNext ==
    \/ ImageUpload
    \/ RegenerateClick
    \/ LoadImage
    \/ GenerateDepthMap
    \/ DepthEstimated
    \/ DepthEstimateFails
    \/ DepthSaved

SpecUpload == UploadInit /\ [][UploadNext]_vars

----------------------------------------------------------------------------
(* The main application's render loop (DepthFlowApp in main.js): frames are
   drawn on demand.  app holds the DepthFlowApp fields; app.active says that
   lastActivityTime is at most 100 ms old; app.callbacks counts the
   animation-frame callbacks of render() the browser holds; state.moving is
   the number of coming frames in which State.update() still changes the
   render key; renderer.depth numbers the depth rasters installed so far and
   frame.depth is the one the last renderer.render() drew; frame.afterWake
   says that renderer.render() has run since the last wake event. *)

LoopInit ==
    /\ app = [rafId |-> "null", needsRender |-> TRUE, active |-> TRUE,
              initPending |-> TRUE, callbacks |-> 0, generating |-> FALSE,
              motion |-> [running |-> FALSE]]
    /\ state = [moving |-> 0]
    /\ renderer = [depth |-> 0]
    /\ frame = [depth |-> -1, afterWake |-> FALSE]
    /\ estimator = [model |-> TRUE, loading |-> FALSE]
    /\ dp = dpIdle
    /\ MarchIdle

\* A requestRender that asks for a frame whether or not one is pending
requestRenderUnguarded(a) ==
    [a EXCEPT !.rafId = "raf", !.callbacks = @ + 1]

\* requestRender()
requestRender(a) ==
    IF a.rafId # "null" THEN a
    ELSE [a EXCEPT !.rafId = "raf", !.callbacks = @ + 1]

\* A markActive that leaves it to the running loop to draw
markActiveNoRequest(a) ==
    [a EXCEPT !.active = TRUE, !.needsRender = TRUE]

\* markActive()
markActive(a) ==
    requestRender([a EXCEPT !.active = TRUE, !.needsRender = TRUE])

\* The callback init() hands to requestAnimationFrame
InitCallback ==
    /\ app.initPending
    /\ app' = requestRender([app EXCEPT !.initPending = FALSE])
    /\ UNCHANGED <<renderer, textures, state, estimator, frame, dp,
                   pixelVars>>

\* A wake event ('input', 'change', a mouse, touch or wheel event, 'resize'):
\* markActive(), and the input may move the camera's targets
WakeEvent ==
    \E m \in 0..MaxMoving :
        /\ app' = markActive(app)
        /\ state' = [state EXCEPT !.moving = m]
        /\ frame' = [frame EXCEPT !.afterWake = FALSE]
        /\ UNCHANGED <<renderer, textures, estimator, dp, pixelVars>>

\* 'change' on the motion preset select: the wake event, then setPreset
PresetChange ==
    \E run \in BOOLEAN :
        /\ app' = [markActive(app) EXCEPT !.motion.running = run]
        /\ frame' = [frame EXCEPT !.afterWake = FALSE]
        /\ UNCHANGED <<renderer, textures, state, estimator, dp, pixelVars>>

\* More than 100 ms have passed since lastActivityTime
TimePasses ==
    /\ app.active
    /\ app' = [app EXCEPT !.active = FALSE]
    /\ UNCHANGED <<renderer, textures, state, estimator, frame, dp,
                   pixelVars>>

\* 'click' on the regenerate button, or an upload with auto depth, up to the
\* awaits of generateDepthMapFromImage; 'click' is not a wake event
StartGeneration ==
    /\ ~app.generating
    /\ renderer.depth < MaxDepths
    /\ app' = [app EXCEPT !.generating = TRUE]
    /\ UNCHANGED <<renderer, textures, state, estimator, frame, dp,
                   pixelVars>>

\* estimate() has resolved: renderer.loadDepthFromImageData(depthData) and
\* the rest of generateDepthMapFromImage
DepthInstalled ==
    /\ app.generating
    /\ renderer' = [renderer EXCEPT !.depth = @ + 1]
    /\ app' = [app EXCEPT !.generating = FALSE]
    /\ UNCHANGED <<textures, state, estimator, frame, dp, pixelVars>>

\* The browser runs a callback of render().  late: the 100 ms run out
\* between the two readings of the clock.
RenderFrame ==
    \E late \in BOOLEAN :
        LET stateChanged == state.moving > 0
            a1 == [app EXCEPT !.rafId = "null", !.callbacks = @ - 1,
                              !.active = @ \/ stateChanged]
            skip == /\ ~a1.needsRender
                    /\ ~a1.motion.running
                    /\ ~stateChanged
                    /\ ~a1.active
            a2 == [a1 EXCEPT !.needsRender = FALSE,
                             !.active = @ /\ ~late]
            stillActive == a2.motion.running \/ stateChanged \/ a2.active
        IN  /\ app.callbacks > 0
            /\ state' = [state EXCEPT
                            !.moving = IF @ > 0 THEN @ - 1 ELSE 0]
            /\ IF skip
               THEN /\ app' = a1
                    /\ frame' = frame
               ELSE /\ app' = IF a2.needsRender \/ stillActive
                              THEN requestRender(a2) ELSE a2
                    /\ frame' = [depth |-> renderer.depth,
                                 afterWake |-> TRUE]
            /\ UNCHANGED <<renderer, textures, estimator, dp, pixelVars>>

LoopNext ==
    \/ InitCallback
    \/ WakeEvent
    \/ PresetChange
    \/ TimePasses
    \/ StartGeneration
    \/ DepthInstalled
    \/ RenderFrame

\* The browser runs every animation-frame callback it holds, and time
\* passes; nothing obliges the user to act or a depth estimate to arrive.
SpecLoop ==
    /\ LoopInit
    /\ [][LoopNext]_vars
    /\ WF_vars(InitCallback)
    /\ WF_vars(RenderFrame)
    /\ WF_vars(TimePasses)

----------------------------------------------------------------------------
(* The main application's Renderer and its CPU-side edge fix (renderer.js):
   loadDepth / loadDepthFromImageData, applyEdgeFix and render.  Of
   textures only image and depth belong to this renderer.  state.edgeFix
   counts twentieths; renderer.lastEdgeFix is -1 or a value of edgeFix.
   frame records what the last render() drew with. *)

\* the depth rasters a file or the depth model delivers (red channel)
EdgeFixRasters ==
    {Raster(3, 2, <<10, 200, 30, 40, 50, 60>>),
     Raster(3, 2, <<90, 20, 70, 5, 255, 0>>),
     Raster(2, 3, <<0, 0, 0, 180, 0, 0>>)}

EdgeFixInit ==
    /\ renderer = [originalDepth |-> null, lastEdgeFix |-> -1]
    /\ state = [edgeFix |-> 4]
    /\ frame = noFrame
    /\ app = [handlers |-> <<>>]
    /\ estimator = [model |-> FALSE, loading |-> FALSE]
    /\ dp = dpIdle
    /\ MarchIdle

\* "Math.ceil(edgeFix * 10)" for an edgeFix in twentieths
edgeFixRadius(edgeFix) == (edgeFix + 1) \div 2

\* Pass 1 of applyEdgeFix: the maximum over a row's window
horizontalMax(src, radius) ==
    [src EXCEPT !.data =
        [k \in 1..(src.w * src.h) |->
            LET x == xOf(k, src.w)
                row == yOf(k, src.w) * src.w
                x0 == Max(0, x - radius)
                x1 == Min(src.w - 1, x + radius)
                window == {src.data[row + kx + 1] : kx \in x0..x1}
            IN  CHOOSE v \in window \cup {0} :
                    \A u \in window \cup {0} : u <= v]]

\* Pass 2 of applyEdgeFix: the maximum over a column's window
verticalMax(temp, radius) ==
    [temp EXCEPT !.data =
        [k \in 1..(temp.w * temp.h) |->
            LET x == xOf(k, temp.w)
                y == yOf(k, temp.w)
                y0 == Max(0, y - radius)
                y1 == Min(temp.h - 1, y + radius)
                window == {temp.data[ky * temp.w + x + 1] : ky \in y0..y1}
            IN  CHOOSE v \in window \cup {0} :
                    \A u \in window \cup {0} : u <= v]]

\* applyEdgeFix(): the renderer fields and the depth texture it leaves
applyEdgeFix(r, tex) ==
    IF r.originalDepth = null \/ state.edgeFix = r.lastEdgeFix
    THEN [renderer |-> r, textures |-> tex]
    ELSE [renderer |-> [r EXCEPT !.lastEdgeFix = state.edgeFix],
          textures |->
              [tex EXCEPT !.depth =
                  IF state.edgeFix <= 0 THEN r.originalDepth
                  ELSE verticalMax(
                           horizontalMax(r.originalDepth,
                                         edgeFixRadius(state.edgeFix)),
                           edgeFixRadius(state.edgeFix))]]

\* A load that keeps lastEdgeFix
forceReprocessNot(r) == r

\* "this.lastEdgeFix = -1;  // Force reprocess"
forceReprocess(r) == [r EXCEPT !.lastEdgeFix = -1]

\* loadDepth, once the file is decoded, and loadDepthFromImageData
LoadDepthRaster ==
    \E d \in EdgeFixRasters :
        LET r == forceReprocess([renderer EXCEPT !.originalDepth = d])
        IN  /\ renderer' = applyEdgeFix(r, textures).renderer
            /\ textures' = applyEdgeFix(r, textures).textures
            /\ UNCHANGED <<state, estimator, app, frame, dp, pixelVars>>

\* the edge-fix slider's debounced state update, or restored settings
SetEdgeFix ==
    \E e \in 0..MaxEdgeFix :
        /\ e # state.edgeFix
        /\ state' = [state EXCEPT !.edgeFix = e]
        /\ UNCHANGED <<renderer, textures, estimator, app, frame, dp,
                       pixelVars>>

\* Renderer.render(): applyEdgeFix() before the draw call
RenderEdgeFix ==
    /\ renderer' = applyEdgeFix(renderer, textures).renderer
    /\ textures' = applyEdgeFix(renderer, textures).textures
    /\ frame' = [drawn |-> TRUE, depth |-> textures'.depth,
                 originalDepth |-> renderer.originalDepth,
                 edgeFix |-> state.edgeFix]
    /\ UNCHANGED <<state, estimator, app, dp, pixelVars>>

EdgeFixNext ==
    \/ LoadDepthRaster
    \/ SetEdgeFix
    \/ RenderEdgeFix

SpecEdgeFix == EdgeFixInit /\ [][EdgeFixNext]_vars

----------------------------------------------------------------------------
(* The Recorder (recorder.js) with the MotionController it drives.  app
   holds the Recorder's fields, state the MotionController's running and
   time, frame the clock performance.now() and the motion time shown by the
   first captured frame, estimator the promise of the last startRecording
   call: how it stands, the value of motion.running just before the call,
   and a bit that flips whenever a call settles.  Times count frame periods.
   A field that holds null or an object is TRUE when it holds the object;
   gifFrames is -1 for null and the number of frames otherwise.  Every
   method is called by whoever holds the Recorder, at any time. *)

RecorderInit ==
    /\ app = [isRecording |-> FALSE, isPreviewing |-> FALSE,
              previewPendingStart |-> FALSE,
              previewOriginalRunning |-> FALSE,
              offscreenCanvas |-> FALSE, mediaRecorder |-> "null",
              recordingStartTime |-> 0, recordingPendingStart |-> FALSE,
              recordingDuration |-> 0, recordingOriginalRunning |-> FALSE,
              recordingProgress |-> FALSE, gifRecording |-> FALSE,
              gifFrames |-> -1, gifDoneResolve |-> FALSE,
              gifTotalFrames |-> 0, gifCapturedCount |-> 0]
    /\ \E run \in BOOLEAN : state = [running |-> run, time |-> 0]
    /\ frame = [now |-> 0, firstPose |-> -1]
    /\ estimator = [promise |-> "none", before |-> FALSE, settles |-> 0]
    /\ renderer = [image |-> "none", originalDepth |-> "none"]
    /\ dp = dpIdle
    /\ MarchIdle

\* A resetLoopToStartPose that leaves the phase where the warm-up cycle of
\* the smoothing has taken it
resetLoopToStartPoseWarm(motion) == [running |-> TRUE, time |-> 1]

\* resetLoopToStartPose: motion.time = 0 and motion.running = true, also
\* after the warm-up cycle
resetLoopToStartPose(motion) == [running |-> TRUE, time |-> 0]

\* the fields stopPreview() assigns when a preview is on
stopPreview(r) ==
    IF ~r.isPreviewing THEN r
    ELSE [r EXCEPT !.isPreviewing = FALSE, !.previewPendingStart = FALSE]

\* A startPreview that does not look at isRecording
StartPreviewUnguarded ==
    /\ app' = [app EXCEPT !.previewOriginalRunning = state.running,
                          !.isPreviewing = TRUE,
                          !.previewPendingStart = TRUE]
    /\ state' = [resetLoopToStartPose(state) EXCEPT !.running = FALSE]
    /\ UNCHANGED <<renderer, textures, estimator, frame, dp, pixelVars>>

\* startPreview()
StartPreview ==
    /\ ~app.isRecording
    /\ app' = [app EXCEPT !.previewOriginalRunning = state.running,
                          !.isPreviewing = TRUE,
                          !.previewPendingStart = TRUE]
    /\ state' = [resetLoopToStartPose(state) EXCEPT !.running = FALSE]
    /\ UNCHANGED <<renderer, textures, estimator, frame, dp, pixelVars>>

\* stopPreview()
StopPreview ==
    /\ app.isPreviewing
    /\ app' = stopPreview(app)
    /\ state' = [state EXCEPT !.running = app.previewOriginalRunning]
    /\ UNCHANGED <<renderer, textures, estimator, frame, dp, pixelVars>>

\* updatePreview(); restart: the preview has run for the whole duration
UpdatePreview ==
    \E restart \in BOOLEAN :
        /\ app.isPreviewing
        /\ app' = [app EXCEPT !.previewPendingStart = FALSE]
        /\ state' = [running |-> state.running \/ app.previewPendingStart,
                     time |-> IF restart THEN 0 ELSE state.time]
        /\ UNCHANGED <<renderer, textures, estimator, frame, dp, pixelVars>>

\* the finally block of startRecording
finallyReset(r) ==
    [r EXCEPT !.isRecording = FALSE, !.offscreenCanvas = FALSE,
              !.mediaRecorder = "null", !.recordingProgress = FALSE,
              !.recordingStartTime = 0, !.recordingPendingStart = FALSE,
              !.recordingDuration = 0, !.gifRecording = FALSE,
              !.gifFrames = -1, !.gifDoneResolve = FALSE,
              !.gifTotalFrames = 0, !.gifCapturedCount = 0,
              !.previewPendingStart = FALSE]

\* startRecording(onProgress) up to its first await, its throw or its
\* return.  click: the call comes from the export button's handler, which
\* stops the preview before it calls.  context: getContext('2d') gives a
\* context.  format "gif" with window.GIF defined records a GIF, every other
\* case a video; starts: the MediaRecorder can be constructed and started.
StartRecording ==
    \E click, onProgress, context, starts \in BOOLEAN,
       format \in {"webm", "gif"}, duration \in 1..MaxDuration :
        LET motion0 == IF click /\ app.isPreviewing
                       THEN [state EXCEPT
                               !.running = app.previewOriginalRunning]
                       ELSE state
            motion1 == IF app.isPreviewing
                       THEN [state EXCEPT
                               !.running = app.previewOriginalRunning]
                       ELSE state
            r1 == [stopPreview(app) EXCEPT
                       !.recordingProgress = onProgress,
                       !.isRecording = TRUE,
                       !.recordingOriginalRunning = motion1.running,
                       !.recordingPendingStart = TRUE]
            held == [resetLoopToStartPose(motion1) EXCEPT !.running = FALSE]
            restored == [held EXCEPT !.running = r1.recordingOriginalRunning]
            r2 == [r1 EXCEPT !.offscreenCanvas = TRUE,
                             !.recordingStartTime = 0,
                             !.recordingDuration = duration + 1]
            call(outcome) == [promise |-> outcome, before |-> motion0.running,
                              settles |-> IF outcome = "pending"
                                          THEN estimator.settles
                                          ELSE 1 - estimator.settles]
        IN  /\ ~(click /\ app.isRecording)
            /\ IF app.isRecording
               THEN /\ app' = app
                    /\ state' = state
                    /\ estimator' = [estimator EXCEPT
                                        !.settles = 1 - @]
               ELSE IF ~context
               THEN /\ app' = [r1 EXCEPT !.isRecording = FALSE,
                                         !.recordingPendingStart = FALSE]
                    /\ state' = restored
                    /\ estimator' = call("rejected")
               ELSE IF format = "gif"
               THEN /\ app' = [r2 EXCEPT !.gifFrames = 0,
                                         !.gifTotalFrames = duration + 1,
                                         !.gifCapturedCount = 0,
                                         !.gifRecording = TRUE,
                                         !.gifDoneResolve = TRUE]
                    /\ state' = held
                    /\ estimator' = call("pending")
               ELSE IF starts
               THEN /\ app' = [r2 EXCEPT !.mediaRecorder = "recording"]
                    /\ state' = held
                    /\ estimator' = call("pending")
               ELSE /\ app' = finallyReset(r2)
                    /\ state' = restored
                    /\ estimator' = call("rejected")
            /\ frame' = IF app.isRecording THEN frame
                        ELSE [frame EXCEPT !.firstPose = -1]
            /\ UNCHANGED <<renderer, textures, dp, pixelVars>>

\* captureFrame(); when it has taken the last GIF frame it resolves the
\* promise recordGif awaits, and recordGif goes on to the encoder
CaptureFrame ==
    LET start == app.recordingPendingStart
        r1 == IF start
              THEN [app EXCEPT !.recordingPendingStart = FALSE,
                               !.recordingStartTime = frame.now]
              ELSE app
        elapsed == frame.now - r1.recordingStartTime
        taken == IF elapsed + 1 > r1.gifCapturedCount
                 THEN Min(r1.gifTotalFrames, elapsed + 1)
                 ELSE r1.gifCapturedCount
    IN  /\ app.isRecording /\ app.offscreenCanvas
        /\ state' = [state EXCEPT !.running = @ \/ start]
        /\ frame' = IF start THEN [frame EXCEPT !.firstPose = state.time]
                    ELSE frame
        /\ app' = IF r1.gifRecording
                  THEN IF taken >= r1.gifTotalFrames
                       THEN [r1 EXCEPT !.gifFrames = taken,
                                       !.gifCapturedCount = taken,
                                       !.gifDoneResolve = FALSE,
                                       !.gifRecording = FALSE]
                       ELSE [r1 EXCEPT !.gifFrames = taken,
                                       !.gifCapturedCount = taken]
                  ELSE IF /\ elapsed >= r1.recordingDuration
                          /\ r1.mediaRecorder = "recording"
                  THEN [r1 EXCEPT !.mediaRecorder = "inactive"]
                  ELSE r1
        /\ UNCHANGED <<renderer, textures, estimator, dp, pixelVars>>

\* A frame period has passed on the clock performance.now(), and the render
\* loop has called motion.update(deltaTime)
MotionUpdate ==
    /\ frame.now < MaxNow
    /\ frame' = [frame EXCEPT !.now = @ + 1]
    /\ state' = IF state.running THEN [state EXCEPT !.time = @ + 1]
                ELSE state
    /\ UNCHANGED <<renderer, textures, estimator, app, dp, pixelVars>>

\* The awaited promise settles: the MediaRecorder's onstop (ok) or onerror,
\* or the GIF encoder's 'finished'; then the finally block
RecordingSettled ==
    \E ok \in BOOLEAN :
        /\ estimator.promise = "pending"
        /\ \/ ok /\ app.mediaRecorder = "inactive"
           \/ ~ok /\ app.mediaRecorder = "recording"
           \/ ok /\ app.gifFrames >= 0 /\ ~app.gifRecording
        /\ app' = finallyReset(app)
        /\ state' = [state EXCEPT !.running = app.recordingOriginalRunning]
        /\ estimator' = [estimator EXCEPT
                            !.promise = IF ok THEN "resolved"
                                        ELSE "rejected",
                            !.settles = 1 - @]
        /\ UNCHANGED <<renderer, textures, frame, dp, pixelVars>>

RecorderNext ==
    \/ StartPreview
    \/ StopPreview
    \/ UpdatePreview
    \/ StartRecording
    \/ CaptureFrame
    \/ MotionUpdate
    \/ RecordingSettled

SpecRecorder == RecorderInit /\ [][RecorderNext]_vars

----------------------------------------------------------------------------
(* Properties of the per-pixel program *)

\* The place of a program position in the order the program runs through
phaseOrder(p) ==
    CASE p = "fgFwd" -> 7 [] p = "fgBwd" -> 6 [] p = "finish" -> 5
      [] p = "main" -> 4 [] p = "bgFwd" -> 3 [] p = "bgBwd" -> 2
      [] p = "blend" -> 1 [] OTHER -> 0

\* What is left of the pixel's program: the positions still to come, and
\* within a loop the iterations its cap still allows
C1_Left ==
    1000 * phaseOrder(pc)
      + (IF pc \in Forward THEN 200 - nF
         ELSE IF pc \in Backward THEN 100 - nB ELSE 0)

\* C1: for every pixel, raster and camera setting, each ray march (foreground
\* and background) executes at most 200 forward and at most 100 backward
\* iterations, and every step of the pixel's program strictly reduces what is
\* left of it, so the program finishes whatever the input.
C1_MarchesBounded ==
    /\ [](nF <= 200 /\ nB <= 100 /\ C1_Left >= 0)
    /\ [][C1_Left' < C1_Left]_vars

\* C1 witness: a finished pixel whose forward march was ended by the cap.
C1_Witness == pc = "done" /\ nF = 200

\* the final hit coordinate, divided by the image aspect on x, lies outside
\* [-1, 1] on x or on y
C9_OutsideUnit ==
    LET an == uniforms.uImageAspect[1]
        ad == uniforms.uImageAspect[2]
    IN  \/ hit.uv[1] * ad > an * CoordDen
        \/ hit.uv[1] * ad < -(an * CoordDen)
        \/ hit.uv[2] > CoordDen
        \/ hit.uv[2] < -CoordDen

colourNum(c) == c.fg * c.factor[2] + (c.bg - c.fg) * c.factor[1]

C13_Halves(xy) == [k \in 1..2 |-> xy[k] * 2 * WalkDen]

\* the pixel's screen coordinate moved back by the camera offset
C13_ScreenLessOffset ==
    C13_Halves(<<vGluv[1] - uniforms.uOffset[1],
                 vGluv[2] - uniforms.uOffset[2]>>)

C14_MirrorPeriodic ==
    (pc = "done" /\ fragColor.src = "shifted" /\ uniforms.uMirror) =>
        fragColor.bg = fragColor.fg

\* C14 witness: with mirroring on, a raster of distinct texels has been
\* sampled outside the image and again one period further on both axes; at
\* that coordinate the two-texel neighbourhood is not constant.
C14_Witness ==
    /\ pc = "done"
    /\ fragColor.src = "shifted"
    /\ uniforms.uMirror
    /\ textures.image.w = 3
    /\ bgUV[1] # hitUV[1] /\ bgUV[2] # hitUV[2]
    /\ hitUV[1] * uniforms.uImageAspect[2] > uniforms.uImageAspect[1] * SampleDen
    /\ fragColor.fg # sampleTex("image", <<hitUV[1] + 1, hitUV[2]>>, SampleDen)

\* the raster-sample coordinates (stuv) of the sampled coordinate: x and y
C15_Stuv ==
    <<stuvAxis(hitUV[1], SampleDen, uniforms.uImageAspect[1],
               uniforms.uImageAspect[2], uniforms.uMirror),
      stuvAxis(hitUV[2], SampleDen, 1, 1, uniforms.uMirror)>>

\* the texel column and row the sampler reads at the sampled coordinate
C15_Texel ==
    <<texelIndex(C15_Stuv[1], textures.image.w, FALSE),
      texelIndex(C15_Stuv[2], textures.image.h,
                 uniforms.program = "twolayer")>>

C12_Weight ==
    LET lim  == uniforms.uSteepnessLimit
        soft == uniforms.uBlendSoftness
        num  == (hit.steep - lim) * 100 * soft[2]
        den  == Max(lim * 100, 1) * (soft[1] + soft[2])
        t    == IF num <= 0 THEN <<0, 1>>
                ELSE IF num >= den THEN <<1, 1>>
                ELSE <<num \div gcd(num, den), den \div gcd(num, den)>>
    IN  <<t[1] * t[1] * (3 * t[2] - 2 * t[1]) * uniforms.uLayerBlend,
          t[2] * t[2] * t[2] * 100>>

C33_InsideAt(k) ==
    inside(k, nB, surfaceDepth(marchSample(pc, point(k, nB))))

\* C33: the coarse forward pass ends at the first step at which
\* ceiling < surface, or as soon as walk exceeds 1, or after 200 steps,
\* whichever comes first: it takes a further step exactly while none of the
\* three has happened; and the backward pass starts from the walk value at
\* which the forward pass ended, its first sample one fine step below it.
C33_ForwardStopsAtFirstOvershoot ==
    [][/\ (pc \in Forward /\ pc' = pc) =>
              /\ i < 200 /\ i' = i + 1
              /\ WalkNum(nF, nB) <= WalkDen
              /\ nF' = nF + 1 /\ nB' = nB
              /\ ~C33_InsideAt(nF')
       /\ (pc \in Forward /\ pc' \in Backward) =>
              /\ nB' = nB
              /\ \/ /\ i < 200 /\ WalkNum(nF, nB) <= WalkDen
                    /\ nF' = nF + 1
                    /\ C33_InsideAt(nF')
                 \/ /\ i < 200 /\ WalkNum(nF, nB) > WalkDen
                    /\ nF' = nF
                 \/ /\ i = 200
                    /\ nF' = nF
       /\ (pc \in Backward /\ i = 0 /\ nB' # nB) =>
              /\ nF' = nF
              /\ WalkNum(nF', nB') = WalkNum(nF, 0) - probeDiv
              /\ hitUV' = point(nF, 1)
      ]_vars

\* C33 witness: a foreground march that overshot at its third or a later
\* coarse step, with walk still within 1, has taken its first fine step back.
C33_Witness ==
    /\ pc = "fgBwd"
    /\ nB = 1
    /\ nF \in 3..199
    /\ C33_InsideAt(nF)
    /\ WalkNum(nF, 0) <= WalkDen
    /\ hitUV = point(nF, 1)

----------------------------------------------------------------------------
(* Properties of the depth-layer pipeline *)

\* C4: once the pull phase is over, through the three smoothing passes and in
\* the background raster process() returns, every pixel that the mask leaves
\* unmasked has exactly its original depth value.
C4_UnmaskedKeepValue ==
    /\ dp.pc \in {"smooth", "done"} =>
          \A k \in 1..Len(dp.mask) :
              dp.mask[k] = 0 => dp.result.data[k] = dp.depth[k]
    /\ dp.pc = "done" =>
          \A k \in 1..Len(dp.mask) :
              dp.mask[k] = 0 =>
                  dp.layers.background.data[k] = dp.image.data[k]

\* C4 witness: process() has finished on a raster with an unmasked pixel
\* inside the range the smoothing passes go over, and masked pixels around it.
C4_Witness ==
    /\ dp.pc = "done"
    /\ \E k \in 1..Len(dp.mask) :
          /\ xOf(k, dp.image.w) >= 2 /\ xOf(k, dp.image.w) < dp.image.w - 2
          /\ yOf(k, dp.image.w) >= 2 /\ yOf(k, dp.image.w) < dp.image.h - 2
          /\ dp.mask[k] = 0
    /\ \E j \in 1..Len(dp.mask) : dp.mask[j] = 1

\* C5: if at least one pixel is unmasked, then for every width and height the
\* pyramid's last level is 1x1 and valid, and after the pull phase every
\* pixel (so every masked pixel) holds a value taken from valid data.
C5_PullFillsEveryMaskedPixel ==
    (/\ dp.pc \in {"smooth", "done"}
     /\ \E k \in 1..Len(dp.mask) : dp.mask[k] = 0)
    => /\ lastLevel.width = 1 /\ lastLevel.height = 1
       /\ lastLevel.valid[1] = 1
       /\ \A k \in 1..Len(dp.mask) : dp.result.valid[k] = 1

\* every pixel of the raster in work is masked
C16_AllMasked ==
    /\ Len(dp.mask) > 0
    /\ \A k \in 1..Len(dp.mask) : dp.mask[k] = 1

\* C16: when every pixel is masked, no level of the pyramid has a valid
\* pixel, and from the end of the pull phase on, through the smoothing passes
\* and in the background raster process() returns, every pixel holds the one
\* value 0.
C16_AllMaskedFallsBackToZero ==
    C16_AllMasked =>
        /\ \A n \in 1..Len(dp.levels) :
              \A k \in 1..Len(dp.levels[n].valid) :
                  dp.levels[n].valid[k] = 0 /\ dp.levels[n].data[k] = 0
        /\ dp.pc \in {"smooth", "done"} =>
              \A k \in 1..Len(dp.mask) : dp.result.data[k] = 0
        /\ dp.pc = "done" =>
              \A k \in 1..Len(dp.mask) : dp.layers.background.data[k] = 0

\* C16 witness: process() has finished on a fully masked raster whose
\* pyramid has several levels.
C16_Witness ==
    /\ dp.pc = "done"
    /\ C16_AllMasked
    /\ Len(dp.levels) > 2
    /\ dp.image.w > 2

\* C17: in every stage of process() and in what it returns, every value of
\* the foreground depth and of the background depth lies in [0, 1] (as bytes,
\* in 0..255) and every mask value is 0 or 1 (as a byte, 0 or 255).
C17_LayersInRange ==
    /\ \A k \in 1..Len(dp.depth) : dp.depth[k] >= 0 /\ dp.depth[k] <= One
    /\ \A k \in 1..Len(dp.mask) : dp.mask[k] \in {0, 1}
    /\ dp.pc \in {"pull", "smooth", "done"} =>
          \A k \in 1..Len(dp.result.data) :
              dp.result.data[k] >= 0 /\ dp.result.data[k] <= One
    /\ dp.pc = "done" =>
          \A k \in 1..Len(dp.mask) :
              /\ dp.layers.foreground.data[k] \in 0..255
              /\ dp.layers.background.data[k] \in 0..255
              /\ dp.layers.mask.data[k] \in {0, 255}

\* C17 witness: process() has finished on a raster whose masked centre pixel
\* was filled from its surroundings and went through the smoothing passes.
C17_Witness ==
    /\ dp.pc = "done"
    /\ dp.image.w = 5 /\ dp.image.h = 5
    /\ dp.mask[at(2, 2, 5)] = 1
    /\ dp.mask[1] = 0
    /\ dp.layers.background.data[at(2, 2, 5)] > 0
    /\ dp.layers.background.data[at(2, 2, 5)] < dp.image.data[at(2, 2, 5)]

\* C18: with dilation radius 0, the mask that leaves the dilation step is,
\* pixel for pixel, the mask of the threshold and gradient passes.
C18_DilationZeroIsIdentity ==
    (dp.pc = "inpaint" /\ dp.edgeDilation = 0) =>
        \A k \in 1..(dp.image.w * dp.image.h) :
            dp.mask[k] = createForegroundMask(dp.depth, dp.image.w,
                             dp.image.h, dp.foregroundThreshold)[k]

\* C18 witness: the dilation step has run with radius 0 on a mask with a
\* masked pixel next to an unmasked one.
C18_Witness ==
    /\ dp.pc = "inpaint"
    /\ dp.edgeDilation = 0
    /\ \E k \in 1..(Len(dp.mask) - 1) :
          /\ xOf(k, dp.image.w) < dp.image.w - 1
          /\ dp.mask[k] # dp.mask[k + 1]

\* the pixels of the finer level fine that pixel k of the next coarser level
\* coarse covers: its block of two columns and two rows
C35_Covered(k, coarse, fine) ==
    {j \in 1..(fine.width * fine.height) :
        /\ xOf(j, fine.width) \div 2 = xOf(k, coarse.width)
        /\ yOf(j, fine.width) \div 2 = yOf(k, coarse.width)}

RECURSIVE C35_Total(_, _)
C35_Total(S, data) ==
    IF S = {} THEN 0
    ELSE LET j == CHOOSE j \in S : TRUE
         IN  data[j] + C35_Total(S \ {j}, data)

\* C35: in the push phase each pixel of a coarser level is valid exactly when
\* at least one of the finer-level pixels it covers is valid, its value is
\* then the mean of those valid pixels, and a coarser pixel with no valid
\* child is invalid.
C35_PushAveragesValidChildren ==
    \A L \in 2..Len(dp.levels) :
        LET coarse == dp.levels[L]
            fine   == dp.levels[L - 1]
        IN  \A k \in 1..(coarse.width * coarse.height) :
                LET kids == {j \in C35_Covered(k, coarse, fine) :
                                fine.valid[j] = 1}
                IN  /\ coarse.valid[k] = 1 <=> kids # {}
                    /\ kids # {} =>
                          coarse.data[k] =
                              C35_Total(kids, fine.data) \div Cardinality(kids)
                    /\ kids = {} => coarse.valid[k] = 0

\* C35 witness: a pyramid in which a coarser pixel is the mean of two or
\* three valid pixels of its block of four, and another has no valid child.
C35_Witness ==
    /\ Len(dp.levels) >= 2
    /\ LET coarse == dp.levels[2]
           fine   == dp.levels[1]
       IN  /\ \E k \in 1..(coarse.width * coarse.height) :
                 LET kids == {j \in C35_Covered(k, coarse, fine) :
                                 fine.valid[j] = 1}
                 IN  /\ Cardinality(C35_Covered(k, coarse, fine)) = 4
                     /\ Cardinality(kids) \in {2, 3}
                     /\ coarse.valid[k] = 1
           /\ \E k \in 1..(coarse.width * coarse.height) :
                 coarse.valid[k] = 0

\* the element depth[k] of the Float32Array, byte / 255 rounded to Float32,
\* is greater than the threshold t / 100: the byte's exact quotient is
\* greater, or equal to it (0.2, 0.4, 0.6 and 0.8 round upwards)
C36_AboveThreshold(k, t) == dp.image.data[k] * 100 >= t * 255

\* pixel k is an interior pixel, its gradient magnitude
\* sqrt(dx^2 + dy^2), dx and dy half the difference of the two neighbours,
\* exceeds gradientThreshold = 0.15, and its depth exceeds 0.7 t / 100
C36_OnSilhouette(k, t) ==
    LET w == dp.image.w
        h == dp.image.h
        b == dp.image.data
    IN  /\ xOf(k, w) \in 1..(w - 2)
        /\ yOf(k, w) \in 1..(h - 2)
        /\ 100 * ((b[k + 1] - b[k - 1]) * (b[k + 1] - b[k - 1])
                  + (b[k + w] - b[k - w]) * (b[k + w] - b[k - w]))
              > 9 * 255 * 255
        /\ b[k] * 1000 > 7 * t * 255

\* C36: before dilation, mask[i] is 1 exactly when depth[i] >
\* foregroundThreshold, or i is an interior pixel whose centred-difference
\* gradient magnitude exceeds gradientThreshold and whose depth exceeds
\* 0.7 * foregroundThreshold; otherwise it is 0.
C36_MaskIsThresholdOrSilhouette ==
    dp.pc = "dilate" =>
        \A k \in 1..(dp.image.w * dp.image.h) :
            /\ dp.mask[k] \in {0, 1}
            /\ dp.mask[k] = 1 <=>
                  \/ C36_AboveThreshold(k, dp.foregroundThreshold)
                  \/ C36_OnSilhouette(k, dp.foregroundThreshold)

\* C36 witness: an interior pixel below the threshold is in the mask because
\* of its gradient, beside pixels that are not in the mask.
C36_Witness ==
    /\ dp.pc = "dilate"
    /\ \E k \in 1..(dp.image.w * dp.image.h) :
          /\ dp.mask[k] = 1
          /\ ~C36_AboveThreshold(k, dp.foregroundThreshold)
          /\ C36_OnSilhouette(k, dp.foregroundThreshold)
          /\ dp.mask[k - 1] = 0

\* the mask createForegroundMask returned for the raster being processed
C37_Undilated ==
    createForegroundMask([k \in 1..(dp.image.w * dp.image.h) |->
                             fromByte(dp.image.data[k])],
                         dp.image.w, dp.image.h, dp.foregroundThreshold)

\* pixels j and k of the raster lie within Euclidean distance r
C37_Within(j, k, r) ==
    LET ddx == xOf(j, dp.image.w) - xOf(k, dp.image.w)
        ddy == yOf(j, dp.image.w) - yOf(k, dp.image.w)
    IN  ddx * ddx + ddy * ddy <= r * r

\* C37: after dilation with radius r > 0, a pixel is 1 exactly when some
\* pixel of the undilated mask within Euclidean distance r of it is 1, near
\* the raster border too; so every pixel set before dilation is still set.
C37_DilatedIsWithinRadius ==
    (dp.pc = "inpaint" /\ dp.edgeDilation > 0) =>
        \A k \in 1..(dp.image.w * dp.image.h) :
            /\ dp.mask[k] = 1 <=>
                  \E j \in 1..(dp.image.w * dp.image.h) :
                      /\ C37_Undilated[j] = 1
                      /\ C37_Within(j, k, dp.edgeDilation)
            /\ dp.mask[k] \in {0, 1}
            /\ C37_Undilated[k] = 1 => dp.mask[k] = 1

\* C37 witness: a dilation that set a pixel on the raster's border, left its
\* diagonal neighbour of a set pixel unset, and kept the pixels set before.
C37_Witness ==
    /\ dp.pc = "inpaint"
    /\ dp.edgeDilation > 0
    /\ \E k \in 1..(dp.image.w * dp.image.h) :
          /\ xOf(k, dp.image.w) = 0
          /\ dp.mask[k] = 1
          /\ C37_Undilated[k] = 0
    /\ \E k, j \in 1..(dp.image.w * dp.image.h) :
          /\ dp.mask[k] = 0
          /\ C37_Undilated[j] = 1
          /\ Abs(xOf(j, dp.image.w) - xOf(k, dp.image.w)) <= dp.edgeDilation
          /\ Abs(yOf(j, dp.image.w) - yOf(k, dp.image.w)) <= dp.edgeDilation

----------------------------------------------------------------------------
(* Properties of the two-layer demo *)

\* C2: whatever depth maps were loaded and however the threshold and dilation
\* were changed before, the mask and the background depth a frame is drawn
\* with are the ones process() computes from the depth raster loaded at that
\* time with the threshold and dilation of that time.
C2_FrameUsesCurrentLayers ==
    (frame.drawn /\ frame.originalDepth # null) =>
        LET layers == process(frame.originalDepth,
                              setThreshold(frame.foregroundThreshold),
                              setDilation(frame.maskDilation))
        IN  /\ frame.textures.mask = layers.mask
            /\ frame.textures.depthBG = layers.background

\* every raster that is ever handed to the renderer as a whole
WholeRasters ==
    {placeholder, imageBGRaster} \cup Images
      \cup UNION { {process(d, t, r).foreground, process(d, t, r).background,
                    process(d, t, r).mask} :
                   d \in DepthMaps, t \in Thresholds,
                   r \in {5} \cup (0..MaxRadius) }

\* C3: every raster a frame is drawn with (colour, depth, mask, background
\* depth, background colour) is one of the rasters handed over as a whole,
\* the one the texture held before an upload or the one uploaded, never a
\* mix of texels of two rasters.
C3_FramesReadWholeRasters ==
    frame.drawn =>
        \A name \in DOMAIN frame.textures :
            frame.textures[name] \in WholeRasters

\* C3 witness: a frame drawn after loadLayers has replaced all five rasters.
C3_Witness ==
    /\ frame.drawn
    /\ frame.textures.imageBG = imageBGRaster
    /\ frame.textures.depth \in DepthMaps
    /\ frame.originalDepth \in DepthMaps
    /\ frame.textures.depth # frame.originalDepth

FailureReports == {"Processing failed", "Layer processing failed"}

C7_InitRetriesAfterFailure ==
    (estimator.thrown /\ estimator.lastInit = "returned") => estimator.model

\* C8: the image aspect a frame is drawn with is finite and greater than zero.
C8_AspectFinitePositive ==
    frame.drawn =>
        /\ Len(frame.imageAspect) = 2
        /\ frame.imageAspect[1] > 0
        /\ frame.imageAspect[2] > 0

\* C19: depth-model loading tries WebGPU first when it is available and
\* falls back to WASM when WebGPU is unavailable or fails, so that a call of
\* init() that has ended has loaded the model whenever at least one of the
\* two backends can load it.
C19_LoadsWhenABackendCan ==
    (estimator.step = "idle" /\ estimator.lastInit # "none"
     /\ estimator.can # {})
    => /\ estimator.model
       /\ "webgpu" \in estimator.can => estimator.tried = <<"webgpu">>
       /\ "webgpu" \notin estimator.can =>
             estimator.tried[Len(estimator.tried)] = "wasm"

\* C20: with auto-depth enabled, once every upload's handler has run to its
\* end and no depth estimation has failed, the depth raster in use was
\* estimated from the image that is displayed, however the uploads and the
\* depth generations were interleaved.
C20_SettledDepthMatchesImage ==
    (/\ Len(app.handlers) > 0
     /\ \A h \in DOMAIN app.handlers :
           app.handlers[h].pc \in {"returned", "done"})
    => renderer.originalDepth = renderer.image

\* C23: when processLayers finishes, the depth, mask and background textures
\* it installs are derived from the image and the depth map that are current
\* at that moment: a depth map loaded while inpainting was awaited is not
\* overwritten by layers computed from the earlier one.
C23_LayersFromCurrentInputs ==
    app.status = "Done" =>
        LET layers == process(app.depthMap,
                              setThreshold(state.foregroundThreshold),
                              setDilation(state.maskDilation))
        IN  /\ textures.image = app.originalImage
            /\ textures.depth = layers.foreground
            /\ textures.depthBG = layers.background
            /\ textures.mask = layers.mask

\* C24: whenever init() has returned without throwing, the model is ready,
\* so that a following estimate() does not fail with 'Model not
\* initialized'; also when init() was called while another call was loading.
C24_ReturnedInitMeansReady ==
    [][(/\ estimator.lastInit \in {"returned", "loaded"}
        /\ estimator'.estimate # estimator.estimate)
       => estimator'.estimate = "depth"]_vars

\* the runs of generateDepthMapFromImage that are between their first await
\* and their finally block
generating ==
    {h \in DOMAIN app.handlers : app.handlers[h].pc \in {"estimate", "save"}}

\* C28: depthGenerationInProgress is true exactly while one depth generation
\* is running: a call made while another is in flight starts no second
\* inference, and the flag is cleared when the running generation settles,
\* by success or by failure.
C28_BusyExactlyWhileGenerating ==
    /\ Cardinality(generating) <= 1
    /\ app.depthGenerationInProgress <=> generating # {}

\* C28 witness: a generation is running after an earlier one has failed, and
\* a call made while it runs has returned.
C28_Witness ==
    /\ \E h \in generating : app.handlers[h].pc = "estimate"
    /\ \E h \in DOMAIN app.handlers : app.handlers[h].pc = "returned"
    /\ \E h \in DOMAIN app.handlers : app.handlers[h].pc = "failed"

----------------------------------------------------------------------------
(* Properties of the main application's render loop *)

\* C21: when a new depth raster is installed while the render loop is idle
\* (asynchronous depth generation finishes), a frame that uses it is
\* eventually rendered without any further user input.
C21_InstalledDepthIsDrawn ==
    (frame.depth # renderer.depth) ~> (frame.depth = renderer.depth)

\* C29: every wake event is followed by a call of renderer.render() in a
\* later animation frame, also when it arrives while a frame is pending or
\* between two frames of the loop.
C29_WakeIsRendered ==
    (~frame.afterWake) ~> frame.afterWake

\* C29 witness: a wake event has arrived while a frame was already pending
\* and the loop had drawn before.
C29_Witness ==
    /\ ~frame.afterWake
    /\ frame.depth >= 0
    /\ app.rafId = "raf"
    /\ ~app.initPending

\* C30: at any time at most one animation-frame callback of the render loop
\* is pending, and rafId says whether there is one.
C30_OneFramePending ==
    /\ app.callbacks <= 1
    /\ app.callbacks = 1 <=> app.rafId = "raf"

\* C30 witness: a frame is pending, requested by a wake event that followed
\* one frame and reached the loop before the next.
C30_Witness ==
    /\ app.callbacks = 1
    /\ app.needsRender
    /\ frame.depth >= 0
    /\ ~frame.afterWake

----------------------------------------------------------------------------
(* Properties of the recorder *)

\* the capture state of the Recorder is cleared
captureStateCleared(r) ==
    /\ ~r.offscreenCanvas
    /\ r.mediaRecorder = "null"
    /\ r.gifFrames = -1 /\ ~r.gifRecording /\ ~r.gifDoneResolve
    /\ r.gifTotalFrames = 0 /\ r.gifCapturedCount = 0
    /\ ~r.recordingPendingStart
    /\ ~r.recordingProgress

\* C25: whenever startRecording settles, by success or by any failure,
\* isRecording is false, all capture state is cleared, and motion.running
\* equals the value it had just before the recording was requested.
C25_SettledRecordingIsCleared ==
    [][estimator'.settles # estimator.settles
       => /\ ~app'.isRecording
          /\ captureStateCleared(app')
          /\ state'.running = estimator'.before]_vars

\* C26: isRecording and isPreviewing are never both true, and at most one
\* recording is in progress at any time: a call of startRecording is pending
\* exactly while isRecording is set, and a call made meanwhile changes
\* nothing.
C26_RecordingExcludesPreview ==
    /\ [](~(app.isRecording /\ app.isPreviewing))
    /\ [](app.isRecording <=> estimator.promise = "pending")
    /\ [][(app.isRecording /\ app'.isRecording
           /\ estimator'.settles # estimator.settles) => app' = app]_vars

\* C26 witness: a recording is in progress after a preview was started with
\* the motion running, and its first frame has been captured.
C26_Witness ==
    /\ app.isRecording
    /\ app.previewOriginalRunning
    /\ ~app.recordingPendingStart
    /\ frame.firstPose >= 0

----------------------------------------------------------------------------
(* Properties of the main renderer's edge fix *)

\* the dilation of a depth raster: each pixel becomes the maximum of the
\* raster over the square of the given radius around it
dilation(d, radius) ==
    [d EXCEPT !.data =
        [k \in 1..(d.w * d.h) |->
            LET near == {j \in 1..(d.w * d.h) :
                            /\ Abs(xOf(j, d.w) - xOf(k, d.w)) <= radius
                            /\ Abs(yOf(j, d.w) - yOf(k, d.w)) <= radius}
            IN  CHOOSE v \in {d.data[j] : j \in near} :
                    \A j \in near : d.data[j] <= v]]

\* C31: after any sequence of depth loads and edgeFix changes, the depth
\* texture a rendered frame uses is the dilation of the currently loaded
\* depth raster with the current edgeFix value (the raster itself when
\* edgeFix <= 0), and a load always reprocesses: the texture in place is at
\* all times the dilation of the loaded raster with the edgeFix last applied.
C31_FrameUsesCurrentDilation ==
    /\ (frame.drawn /\ frame.originalDepth # null) =>
          frame.depth = dilation(frame.originalDepth,
                                 edgeFixRadius(frame.edgeFix))
    /\ renderer.originalDepth # null =>
          /\ renderer.lastEdgeFix >= 0
          /\ textures.depth = dilation(renderer.originalDepth,
                                       edgeFixRadius(renderer.lastEdgeFix))

\* C31 witness: a frame drawn with a dilated raster after the edgeFix value
\* was changed and a raster was loaded at an unchanged edgeFix.
C31_Witness ==
    /\ frame.drawn
    /\ frame.originalDepth # null
    /\ frame.edgeFix = 1
    /\ frame.depth # frame.originalDepth
    /\ renderer.originalDepth # frame.originalDepth
    /\ renderer.lastEdgeFix = 1

====
